---- MODULE Spec2Model ----
(***************************************************************************)
(* A model of the World Host control-plane server: the connection registry *)
(* (ConnectionSet), the session task of every accepted client              *)
(* (run_main_server / handle_connection), the handshake, the pending       *)
(* friend-request stores and the per-connection send path.                 *)
(***************************************************************************)
EXTENDS Integers, Sequences, FiniteSets, TLC

(***************************************************************************)
(* Bounds of the model.                                                    *)
(***************************************************************************)
NConn == 2          \* sessions of the server
NTrio == 3          \* sessions of the three-session server
NUsers == 2
NIds == 2
NAddrs == 2
MaxMsgs == 2        \* client messages the server reads
MaxSends == 1       \* calls of send_message on their own
MaxFrames == 2      \* frames the observed session reads
MaxShortReads == 1  \* reads of the skip loop that return less than asked for
NLookups == 1       \* lookup ids
MaxTime == 12       \* seconds the clock runs
MaxCalls == 22      \* calls of the rate limiter
MaxLimitTime == 90  \* seconds the clock of the rate limiter runs
MaxOtherCalls == 1  \* calls in a row for an address other than the first
NProxy == 1         \* connections accepted by the proxy server
MaxChunks == 2      \* chunks read from the ingress socket of a proxy connection
MaxRanges == 2      \* ranges the IpInfoMap takes
MaxRetries == 2     \* rounds of the retry loop of a proxy connection that find the destination
MaxProxyMsgs == 2   \* ProxyS2CPacket and ProxyDisconnect messages handled
LimitStep == 30     \* seconds between the instants at which the limiter is called
NSendConn == 1      \* sessions of the server whose sends are observed
NSenders == 11      \* connected users of the server with filled stores
NTargets == 6       \* users without connection of that server

Conns == 1..NConn
Users == 1..NUsers
Ids == 1..NIds
Addrs == 1..NAddrs

(***************************************************************************)
(* Program constants.                                                      *)
(***************************************************************************)
CURRENT == 7
STABLE == 7
NEW_AUTH_PROTOCOL == 6
ENCRYPTED_PROTOCOL == 7
SUPPORTED == CURRENT..STABLE

RememberedLimit == 5
ReceivedLimit == 10

Insecure == 0
Offline == 1
Secure == 2

(***************************************************************************)
(* Uuids: the nil uuid, the max uuid, the users, and an offline (version   *)
(* 3) uuid of no modelled user.  Odd users hold version 4 (online) uuids,  *)
(* even users version 3 (offline) ones.                                    *)
(***************************************************************************)
NilUuid == 0
MaxUuid == 99
ForeignOfflineUuid == 98
Uuids == {NilUuid, MaxUuid} \cup Users

get_version_num(u) ==
    IF u = NilUuid THEN 0
    ELSE IF u = MaxUuid THEN 15
    ELSE IF u = ForeignOfflineUuid THEN 3
    ELSE IF u % 2 = 1 THEN 4 ELSE 3

SecurityLevelFrom(uuid, secure_auth) ==
    IF ~secure_auth THEN Insecure
    ELSE IF get_version_num(uuid) # 4 THEN Offline
    ELSE Secure

(***************************************************************************)
(* Protocol versions a client may put on the wire, and the end-of-stream   *)
(* marker of a client that disconnects before sending one.                 *)
(***************************************************************************)
WireVersions == 1..8
EOF == -1

VARIABLES
    pc,             \* position of every session task
    conn,           \* ConnectionInfo of every session: id, addr, user_uuid, protocol_version
    connections,    \* ServerState.connections: the ConnectionSet
    remembered_friend_requests,
    received_friend_requests,
    wire,           \* frames written to every client socket, in order
    enc,            \* frames that advanced every connection's encrypt cipher
    wrShut,         \* the write half of the socket was shut down
    peerGone,       \* the client closed its end
    err,            \* the error handle_connection returned ("" is Ok)
    loc,            \* locals of the running handler
    msgs,           \* client messages read so far
    everAdded,      \* history: the registry accepted the connection
    outcome,        \* history: how the handshake of the session ended
    lastSend,       \* history: the last call of send_message on its own
    owed,           \* history: requests stored for a user without connection
    rx,             \* recv_message of the session whose reads are observed
    now,            \* Instant::now(), in seconds
    port_lookups,   \* ServerState.port_lookups: lookup id -> ActivePortLookup
    port_lookup_by_expiry,  \* ServerState.port_lookup_by_expiry: the queue
    begun,          \* history: the BeginPortLookup messages handled
    entries,        \* RateLimitBucket.entries of every bucket of the limiter
    calls,          \* history: the calls of ratelimit for every key
    verdict,        \* history: what every bucket answered to the last call
    proxy_connections,  \* ServerState.proxy_connections: proxy id -> destination id
    ingress,        \* the write half of the socket of every proxy connection
    px,             \* the position and the locals of every handle_inner, and the
                    \* history of what it has read (stream), has sent on
                    \* (relayed) and of what its destination has answered
    lastProxy,      \* history: the last ProxyS2CPacket or ProxyDisconnect handled
    config,         \* ServerState.config: base_addr and ex_java_port
    external_proxy, \* ConnectionState.external_proxy of the sessions that have one
    lastGrant,      \* history: the last JoinGranted handled
    codec,          \* a connection id, its text, and what parsing the text gave
    locking,        \* the locks each task holds and what it still has to do
    geo             \* the IpInfoMap, the records loaded and the last lookup

\* the state outside the sessions and the friend request stores
reading == <<rx>>
signalling == <<port_lookups, port_lookup_by_expiry, begun>>
limiting == <<entries, calls, verdict>>
proxying == <<proxy_connections, ingress, px, lastProxy>>
granting == <<config, external_proxy, lastGrant>>
subsystems == <<reading, now, signalling, limiting, proxying, granting, codec, locking, geo>>

\* what an action of one part leaves alone
besides_reading == <<now, signalling, limiting, proxying, granting, codec, locking, geo>>
besides_signalling == <<reading, now, limiting, proxying, granting, codec, locking, geo>>
besides_limiting == <<reading, now, signalling, proxying, granting, codec, locking, geo>>
besides_clock == <<reading, signalling, limiting, proxying, granting, codec, locking, geo>>
besides_proxying == <<reading, now, signalling, limiting, granting, codec, locking, geo>>
besides_codec == <<reading, now, signalling, limiting, proxying, granting, locking, geo>>
besides_proxying_clock == <<reading, signalling, limiting, granting, codec, locking, geo>>
besides_locking == <<reading, now, signalling, limiting, proxying, granting, codec, geo>>
besides_granting == <<reading, now, signalling, limiting, proxying, codec, locking, geo>>
besides_geo == <<reading, now, signalling, limiting, proxying, granting, codec, locking>>

vars == <<pc, conn, connections, remembered_friend_requests,
          received_friend_requests, wire, enc, wrShut, peerGone, err, loc,
          msgs, everAdded, outcome, lastSend, owed, subsystems>>

(***************************************************************************)
(* Maps with a changing key set.                                           *)
(***************************************************************************)
Put(f, k, v) == [x \in (DOMAIN f) \cup {k} |-> IF x = k THEN v ELSE f[x]]
Del(f, k) == [x \in (DOMAIN f) \ {k} |-> f[x]]
EmptyMap == [x \in {} |-> 0]
Range(s) == {s[i] : i \in DOMAIN s}

(***************************************************************************)
(* Vec::iter().position and Vec::swap_remove.                              *)
(***************************************************************************)
PositionOfId(vec, id) ==
    IF \E i \in 1..Len(vec) : conn[vec[i]].id = id
    THEN CHOOSE i \in 1..Len(vec) :
            /\ conn[vec[i]].id = id
            /\ \A j \in 1..(i - 1) : conn[vec[j]].id # id
    ELSE 0

swap_remove(vec, i) ==
    LET n == Len(vec)
    IN  [k \in 1..(n - 1) |-> IF k = i THEN vec[n] ELSE vec[k]]

(***************************************************************************)
(* ConnectionSet.                                                          *)
(***************************************************************************)
NewConnectionSet == [connections |-> EmptyMap, connections_by_user_id |-> EmptyMap]

by_id(set, id) ==
    IF id \in DOMAIN set.connections THEN set.connections[id] ELSE 0

by_user_id(set, user_id) ==
    IF user_id \in DOMAIN set.connections_by_user_id
    THEN set.connections_by_user_id[user_id]
    ELSE <<>>

add_force(set, c) ==
    LET old == by_id(set, conn[c].id)
        by_uuid == by_user_id(set, conn[c].user_uuid)
        old_pos == IF old # 0 THEN PositionOfId(by_uuid, conn[old].id) ELSE 0
        kept == IF old_pos # 0 THEN swap_remove(by_uuid, old_pos) ELSE by_uuid
    IN  [connections |-> Put(set.connections, conn[c].id, c),
         connections_by_user_id |->
            Put(set.connections_by_user_id, conn[c].user_uuid, Append(kept, c))]

add_ok(set, c) == conn[c].id \notin DOMAIN set.connections

add(set, c) == IF add_ok(set, c) THEN add_force(set, c) ELSE set

remove(set, c) ==
    LET uid == conn[c].user_uuid
        present == uid \in DOMAIN set.connections_by_user_id
        by_uuid == by_user_id(set, uid)
        old_pos == PositionOfId(by_uuid, conn[c].id)
        kept == IF old_pos # 0 THEN swap_remove(by_uuid, old_pos) ELSE by_uuid
    IN  [connections |-> Del(set.connections, conn[c].id),
         connections_by_user_id |->
            IF ~present THEN set.connections_by_user_id
            ELSE IF kept = <<>> THEN Del(set.connections_by_user_id, uid)
            ELSE Put(set.connections_by_user_id, uid, kept)]

(***************************************************************************)
(* LinkedHashSet, kept as a sequence without duplicates: insert puts the   *)
(* value at the end of the ordering whether it was present or not.         *)
(***************************************************************************)
Without(set, key) == SelectSeq(set, LAMBDA x : x # key)

lhs_insert(set, key) == Append(Without(set, key), key)

NoUuid == -1

\* a set that drops its newest entry
add_with_circle_limit_pop_back(set, key, limit) ==
    LET was_new == key \notin Range(set)
        inserted == lhs_insert(set, key)
    IN  IF was_new /\ Len(inserted) > limit
        THEN [set |-> SubSeq(inserted, 1, Len(inserted) - 1),
              removed |-> inserted[Len(inserted)]]
        ELSE [set |-> inserted, removed |-> NoUuid]

\* add_with_circle_limit: the set afterwards, and the evicted key (or NoUuid)
add_with_circle_limit(set, key, limit) ==
    LET was_new == key \notin Range(set)
        inserted == lhs_insert(set, key)
    IN  IF was_new /\ Len(inserted) > limit
        THEN [set |-> Tail(inserted), removed |-> Head(inserted)]
        ELSE [set |-> inserted, removed |-> NoUuid]

remove_double_key(map, a, b) ==
    IF a \in DOMAIN map
    THEN LET sub == Without(map[a], b)
         IN  IF sub = <<>> THEN Del(map, a) ELSE Put(map, a, sub)
    ELSE map

entry_or_default(map, k) == IF k \in DOMAIN map THEN map[k] ELSE <<>>

(***************************************************************************)
(* Server-to-client frames and the send path.                              *)
(***************************************************************************)
Frame(t, msg, a, b) == [t |-> t, msg |-> msg, a |-> a, b |-> b]

ErrorFrame(message, critical) == Frame("Error", message, IF critical THEN 1 ELSE 0, 0)
WarningFrame(message) == Frame("Warning", message, 0, 0)
FriendRequestFrame(from_user, security) == Frame("FriendRequest", "", from_user, security)
ConnectionInfoFrame(id, version) == Frame("ConnectionInfo", "", id, version)
OutdatedFrame == Frame("OutdatedWorldHost", "", 0, 0)

S2CTypes ==
    {"Error", "IsOnlineTo", "OnlineGame", "FriendRequest", "PublishedWorld",
     "ClosedWorld", "RequestJoin", "QueryRequest", "QueryResponse",
     "ProxyC2SPacket", "ProxyConnect", "ProxyDisconnect", "ConnectionInfo",
     "ExternalProxyServer", "OutdatedWorldHost", "ConnectionNotFound",
     "NewQueryResponse", "Warning", "PunchOpenRequest", "CancelPortLookup",
     "PortLookupSuccess", "PunchRequestCancelled", "PunchSuccess"}

first_protocol(t) ==
    IF t \in {"OutdatedWorldHost", "ConnectionNotFound"} THEN 4
    ELSE IF t = "NewQueryResponse" THEN 5
    ELSE IF t = "Warning" THEN 6
    ELSE IF t \in {"PunchOpenRequest", "CancelPortLookup", "PortLookupSuccess",
                   "PunchRequestCancelled", "PunchSuccess"} THEN 7
    ELSE 2

security_level(c) ==
    SecurityLevelFrom(conn[c].user_uuid, conn[c].protocol_version >= NEW_AUTH_PROTOCOL)

\* the cipher pair perform_handshake builds
HasCipher(c) == conn[c].protocol_version >= ENCRYPTED_PROTOCOL

\* a write on the socket succeeds
Writable(c) == ~wrShut[c] /\ ~peerGone[c]

\* a connection that passes every message on
Accepts_always(c, t) == TRUE

\* ConnectionInfo::send_message passes the message on to the socket
Accepts(c, t) == conn[c].protocol_version >= first_protocol(t)

send_message_ok(c, f) == Accepts(c, f.t) => Writable(c)

\* one message sent to every connection of the set to
WireAfterSend(w, to, f) ==
    [x \in DOMAIN pc |-> IF x \in to /\ Accepts(x, f.t) /\ Writable(x)
                     THEN Append(w[x], f) ELSE w[x]]

EncAfterSend(e, to, f) ==
    [x \in DOMAIN pc |-> IF x \in to /\ Accepts(x, f.t) /\ HasCipher(x)
                     THEN e[x] + 1 ELSE e[x]]

\* SocketWriteWrapper::close_error with the given cipher
WireAfterClose(w, c, message) ==
    IF Writable(c) THEN [w EXCEPT ![c] = Append(@, ErrorFrame(message, TRUE))] ELSE w

EncAdvance(e, c, cipher) == IF cipher THEN [e EXCEPT ![c] = @ + 1] ELSE e

\* the messages of a run that send_message passes on to the socket
Passed(protocol_version, frames) ==
    SelectSeq(frames, LAMBDA f : protocol_version >= first_protocol(f.t))

(***************************************************************************)
(* Profile verification.  The profile service answers Some(u), None or     *)
(* fails in transport.                                                     *)
(***************************************************************************)
ProfileNone == -1
ProfileErr == -2
Profiles == Uuids \cup {ProfileNone, ProfileErr}
OfflineUuids == {u \in Users \cup {ForeignOfflineUuid} : get_version_num(u) = 3}

\* a verification that treats a transport failure as an unknown profile
verify_profile_strict(requested_uuid, has_joined, offline_uuid) ==
    IF get_version_num(requested_uuid) = 4
    THEN LET profile == IF has_joined = ProfileErr THEN ProfileNone ELSE has_joined
         IN  IF profile # ProfileNone
             THEN [requested_uuid |-> requested_uuid, expected_uuid |-> profile,
                   mismatch_message |-> "Mismatched UUID.", mismatch_is_error |-> TRUE]
             ELSE [requested_uuid |-> requested_uuid, expected_uuid |-> NilUuid,
                   mismatch_message |-> "Failed to verify username.",
                   mismatch_is_error |-> TRUE]
    ELSE IF requested_uuid = NilUuid \/ requested_uuid = MaxUuid
         THEN [requested_uuid |-> requested_uuid, expected_uuid |-> offline_uuid,
               mismatch_message |-> "Reserved special UUID not allowed.",
               mismatch_is_error |-> TRUE]
         ELSE [requested_uuid |-> requested_uuid, expected_uuid |-> offline_uuid,
               mismatch_message |-> "Mismatched offline UUID.",
               mismatch_is_error |-> FALSE]

verify_profile(requested_uuid, has_joined, offline_uuid) ==
    IF get_version_num(requested_uuid) = 4
    THEN LET profile == IF has_joined = ProfileErr THEN requested_uuid ELSE has_joined
         IN  IF profile # ProfileNone
             THEN [requested_uuid |-> requested_uuid, expected_uuid |-> profile,
                   mismatch_message |-> "Mismatched UUID.", mismatch_is_error |-> TRUE]
             ELSE [requested_uuid |-> requested_uuid, expected_uuid |-> NilUuid,
                   mismatch_message |-> "Failed to verify username.",
                   mismatch_is_error |-> TRUE]
    ELSE IF requested_uuid = NilUuid \/ requested_uuid = MaxUuid
         THEN [requested_uuid |-> requested_uuid, expected_uuid |-> offline_uuid,
               mismatch_message |-> "Reserved special UUID not allowed.",
               mismatch_is_error |-> TRUE]
         ELSE [requested_uuid |-> requested_uuid, expected_uuid |-> offline_uuid,
               mismatch_message |-> "Mismatched offline UUID.",
               mismatch_is_error |-> FALSE]

is_mismatch(r) == r.requested_uuid # r.expected_uuid

\* a handshake that does not compare the challenge
HandshakeResult_unchallenged(version, requested_uuid, challenge_ok, has_joined, offline_uuid) ==
    IF version < NEW_AUTH_PROTOCOL
    THEN [success |-> TRUE, message |-> ""]
    ELSE LET r == verify_profile(requested_uuid, has_joined, offline_uuid)
         IN  [success |-> ~is_mismatch(r) \/ ~r.mismatch_is_error,
              message |-> IF is_mismatch(r) THEN r.mismatch_message ELSE ""]

\* perform_versioned_handshake: success and message of the HandshakeResult
HandshakeResult(version, requested_uuid, challenge_ok, has_joined, offline_uuid) ==
    IF version < NEW_AUTH_PROTOCOL
    THEN [success |-> TRUE, message |-> ""]
    ELSE IF ~challenge_ok
    THEN [success |-> FALSE, message |-> "Challenge failed"]
    ELSE LET r == verify_profile(requested_uuid, has_joined, offline_uuid)
         IN  [success |-> ~is_mismatch(r) \/ ~r.mismatch_is_error,
              message |-> IF is_mismatch(r) THEN r.mismatch_message ELSE ""]

(***************************************************************************)
(* Initial state: a server without sessions.                               *)
(***************************************************************************)
NoConn == [id |-> 0, addr |-> 0, user_uuid |-> NoUuid, protocol_version |-> 0]
NoLoc == [to |-> NoUuid, removed |-> NoUuid, dq |-> <<>>]

\* how a handshake ended: the message of its result, whether the client
\* answered the challenge, whether verify_profile found a fatal mismatch
\* and what verify_profile was given, if this is the latest handshake and
\* verify_profile was called
Unverified == [requested_uuid |-> NoUuid, has_joined |-> ProfileNone,
               offline_uuid |-> NoUuid]

NoOutcome == [message |-> "", challenge_ok |-> TRUE, fatal |-> FALSE,
              verify |-> Unverified]

Ended(message) == [message |-> message, challenge_ok |-> TRUE, fatal |-> FALSE,
                   verify |-> Unverified]

\* the history keeps what verify_profile was given for the latest handshake
Forgotten == [c \in DOMAIN outcome |-> [outcome[c] EXCEPT !.verify = Unverified]]

NoSend == [n |-> 0, to |-> 0, t |-> "", ok |-> TRUE]

(***************************************************************************)
(* RateLimitBucket and RateLimiter over the buckets of run_main_server.    *)
(* Instants are seconds; Instant - Instant is a Duration, never negative.  *)
(***************************************************************************)
RateLimitBuckets ==
    << [name |-> "per_minute", max_count |-> 20, expiry |-> 60],
       [name |-> "per_hour", max_count |-> 400, expiry |-> 60 * 60] >>

duration_since(later, earlier) == IF later > earlier THEN later - earlier ELSE 0

NotLimited == [bucket |-> "", remaining |-> 0]
NoVerdict == [n |-> 0, key |-> 0, elapsed |-> <<>>, limited |-> <<>>, overall |-> NotLimited]

\* a bucket that lets max_count + 1 calls pass
bucket_ratelimit_one_more(bucket, bucket_entries, key, current_time) ==
    IF key \notin DOMAIN bucket_entries
       \/ duration_since(current_time, bucket_entries[key].time) >= bucket.expiry
    THEN [entries |-> Put(bucket_entries, key, [time |-> current_time, count |-> 1]),
          limited |-> NotLimited]
    ELSE IF bucket_entries[key].count <= bucket.max_count
    THEN [entries |-> Put(bucket_entries, key,
                          [time |-> current_time, count |-> bucket_entries[key].count + 1]),
          limited |-> NotLimited]
    ELSE [entries |-> bucket_entries,
          limited |-> [bucket |-> bucket.name,
                       remaining |-> duration_since(bucket_entries[key].time, current_time)
                                     + bucket.expiry]]

\* RateLimitBucket::ratelimit: the entries afterwards and the RateLimited
bucket_ratelimit(bucket, bucket_entries, key, current_time) ==
    IF key \notin DOMAIN bucket_entries
       \/ duration_since(current_time, bucket_entries[key].time) >= bucket.expiry
    THEN [entries |-> Put(bucket_entries, key, [time |-> current_time, count |-> 1]),
          limited |-> NotLimited]
    ELSE IF bucket_entries[key].count < bucket.max_count
    THEN [entries |-> Put(bucket_entries, key,
                          [time |-> current_time, count |-> bucket_entries[key].count + 1]),
          limited |-> NotLimited]
    ELSE [entries |-> bucket_entries,
          limited |-> [bucket |-> bucket.name,
                       remaining |-> duration_since(bucket_entries[key].time, current_time)
                                     + bucket.expiry]]

\* a limiter that stops at the first bucket that denies
RECURSIVE ratelimit_until_denied(_, _, _, _, _)
ratelimit_until_denied(i, all, key, current_time, result) ==
    IF i > Len(RateLimitBuckets) \/ result # NotLimited
    THEN [entries |-> all, limited |-> result]
    ELSE LET r == bucket_ratelimit(RateLimitBuckets[i], all[i], key, current_time)
         IN  ratelimit_until_denied(i + 1, [all EXCEPT ![i] = r.entries], key, current_time,
                                    IF r.limited # NotLimited THEN r.limited ELSE result)

\* RateLimiter::ratelimit from bucket i on
RECURSIVE ratelimit(_, _, _, _, _)
ratelimit(i, all, key, current_time, result) ==
    IF i > Len(RateLimitBuckets)
    THEN [entries |-> all, limited |-> result]
    ELSE LET r == bucket_ratelimit(RateLimitBuckets[i], all[i], key, current_time)
         IN  ratelimit(i + 1, [all EXCEPT ![i] = r.entries], key, current_time,
                       IF r.limited # NotLimited THEN r.limited ELSE result)

\* RateLimitBucket::pump_limits
pump_limits(bucket, bucket_entries, current_time) ==
    [key \in {k \in DOMAIN bucket_entries :
                duration_since(current_time, bucket_entries[k].time) < bucket.expiry}
       |-> bucket_entries[key]]

\* no frame is being read
NoRead == [at |-> "idle", size |-> 0, remaining |-> 0, consumed |-> 0, left |-> 0,
           id |-> 0, reads |-> 0, shorts |-> 0, result |-> ""]

\* run_proxy_server has accepted the connections 0, 1, ... and no more
ProxyIds == 0..(NProxy - 1)

Accepted ==
    [at |-> "accepted", dest |-> 0, remote_addr |-> 0, handshake_data |-> <<>>,
     connection |-> 0, chunk |-> <<>>, reads |-> 0, retries |-> 0,
     stream |-> <<>>, relayed |-> <<>>, answered |-> <<>>, send_start |-> 0]

NoProxyMessage == [n |-> 0, from |-> 0, p |-> 0, t |-> ""]

ProxyingInit ==
    /\ proxy_connections = EmptyMap
    /\ ingress = [p \in ProxyIds |-> [written |-> <<>>, shut |-> FALSE]]
    /\ px = [p \in ProxyIds |-> Accepted]
    /\ lastProxy = NoProxyMessage

(***************************************************************************)
(* ConnectionId: a u64, kept as five limbs of 14 bits, the least           *)
(* significant first.  A text is the sequence of its tokens between the    *)
(* "-": a token is a word of the dictionary in some letter case (word is   *)
(* its index) or not (word is -1), has a number of characters, and digits  *)
(* holds its base 36 digits if it is nine characters of base 36.           *)
(***************************************************************************)
WORD_SHIFT == 14
WORD_MASK == 2^WORD_SHIFT - 1

\* the dictionary 16k.txt: 16384 words, no two of them equal when the letter
\* case is ignored, none of them with a "-"
WordCount == 16384

Cases == {"lower", "upper", "mixed"}

WordToken(index, case) == [word |-> index, case |-> case, chars |-> 5, digits |-> <<>>]
ShortToken(digits, case) == [word |-> -1, case |-> case, chars |-> Len(digits), digits |-> digits]
UnknownToken(chars) == [word |-> -1, case |-> "lower", chars |-> chars, digits |-> <<>>]

\* WORDS_FOR_CID[index]; an index beyond the dictionary has no word
WORDS_FOR_CID(index) == CASE index \in 0..(WordCount - 1) -> WordToken(index, "lower")

Limbs(a, b, c, d, e) == <<a, b, c, d, e>>

\* value * m + carry
RECURSIVE mul_add(_, _, _)
mul_add(limbs, m, carry) ==
    IF limbs = <<>> THEN <<>>
    ELSE LET v == Head(limbs) * m + carry
         IN  <<v % 2^WORD_SHIFT>> \o mul_add(Tail(limbs), m, v \div 2^WORD_SHIFT)

\* u64::from_str_radix(word, 36) of a word of base 36 digits
RECURSIVE from_str_radix(_, _)
from_str_radix(digits, value) ==
    IF digits = <<>> THEN value
    ELSE from_str_radix(Tail(digits), mul_add(value, 36, Head(digits)))

\* a lookup that tells the letter cases apart
inverse_get_exact(token) == IF token.case = "lower" THEN token.word ELSE -1

\* WORDS_FOR_CID_INVERSE.get(word): the index of the word, or -1
inverse_get(token) == token.word

Parsed(id) == [ok |-> TRUE, id |-> id, error |-> ""]
Rejected(error) == [ok |-> FALSE, id |-> Limbs(0, 0, 0, 0, 0), error |-> error]

\* ConnectionId::from_str
from_str(words) ==
    IF Len(words) # 3
    THEN IF Len(words) # 1 THEN Rejected("Three words are expected.")
         ELSE IF words[1].chars # 9
         THEN Rejected("Expected nine digit short connection ID")
         ELSE IF words[1].digits = <<>> THEN Rejected("invalid digit found in string")
         ELSE Parsed(from_str_radix(words[1].digits, Limbs(0, 0, 0, 0, 0)))
    ELSE IF \E i \in 1..3 : inverse_get(words[i]) = -1 THEN Rejected("Unknown word.")
    ELSE \* result |= part << shift, shift += WORD_SHIFT
         Parsed(Limbs(inverse_get(words[1]), inverse_get(words[2]),
                      inverse_get(words[3]), 0, 0))

\* Display for ConnectionId: (self.0 >> shift) & WORD_MASK for the shifts 0,
\* WORD_SHIFT and 2 * WORD_SHIFT
Display(id) == <<WORDS_FOR_CID(id[1]), WORDS_FOR_CID(id[2]), WORDS_FOR_CID(id[3])>>

\* ConnectionId::new: the integer must be below 2^42
new(id) ==
    IF id[4] = 0 /\ id[5] = 0 THEN Parsed(id) ELSE Rejected("connection id out of range")

NoCodec == [at |-> "", form |-> "", id |-> Limbs(0, 0, 0, 0, 0), text |-> <<>>, result |-> Rejected("")]

(***************************************************************************)
(* The locks of the server state and of the connections, and the tasks     *)
(* that take them.  What a task does between two awaits is a list of       *)
(* steps: acq and rel of a lock, call (a lock taken and released within    *)
(* one statement), and write (the socket write under the write mutex).     *)
(***************************************************************************)
Lock(name, of) == [name |-> name, of |-> of]
RegistryLock == Lock("connections", 0)
RememberedLock == Lock("remembered_friend_requests", 0)
ReceivedLock == Lock("received_friend_requests", 0)
PortLookupsLock == Lock("port_lookups", 0)
ByExpiryLock == Lock("port_lookup_by_expiry", 0)
ProxyTableLock == Lock("proxy_connections", 0)
ProxySocketLock == Lock("proxy socket", 0)
WriteMutex(c) == Lock("write", c)

Acq(lock) == [op |-> "acq", lock |-> lock]
Rel(lock) == [op |-> "rel", lock |-> lock]
Call(lock) == [op |-> "call", lock |-> lock]
SocketWrite(lock) == [op |-> "write", lock |-> lock]

\* a send that looks the connection up again while it holds the write mutex
send_message_steps_by_id(c) ==
    <<Acq(WriteMutex(c)), Call(RegistryLock), SocketWrite(WriteMutex(c)), Rel(WriteMutex(c))>>

\* ConnectionInfo::send_message and close_error:
\* self.write.lock().await.send_message(message).await
send_message_steps(c) ==
    <<Acq(WriteMutex(c)), SocketWrite(WriteMutex(c)), Rel(WriteMutex(c))>>

\* the registration loop: add, and after a failed add the incumbent of the
\* same address is closed and replaced, or the newcomer gives up
RegistrationSteps(c, other) ==
    { <<Call(RegistryLock)>>,
      <<Call(RegistryLock), Acq(RegistryLock)>> \o send_message_steps(other) \o <<Rel(RegistryLock)>>,
      <<Call(RegistryLock), Call(RegistryLock)>> \o send_message_steps(c) }

\* dequeue_friend_requests
DequeueSteps(c) ==
    { <<Call(ReceivedLock)>>,
      <<Call(ReceivedLock), Acq(RememberedLock)>> \o send_message_steps(c) \o <<Rel(RememberedLock)>> }

\* handle_message: FriendRequest, the broadcasts and the forwards to one
\* connection, BeginPortLookup, ProxyS2CPacket and ProxyDisconnect
HandlerSteps(c, other) ==
    { <<Call(RegistryLock)>> \o send_message_steps(other),
      <<Call(RegistryLock), Call(RememberedLock), Call(ReceivedLock), Call(RememberedLock)>>,
      <<Call(RegistryLock)>> \o send_message_steps(c),
      <<Call(PortLookupsLock), Call(ByExpiryLock)>>,
      <<Acq(ProxyTableLock), Acq(ProxySocketLock), SocketWrite(ProxySocketLock), Rel(ProxySocketLock),
        Rel(ProxyTableLock)>> }

\* the close path of run_main_server
ClosePathSteps(c) == { send_message_steps(c) \o <<Call(RegistryLock)>>, <<Call(RegistryLock)>> }

\* handle_proxy_connection: the lookup and the registration of the relay,
\* a chunk, a retry, and the end
RelaySteps(host) ==
    { <<Call(RegistryLock), Call(ProxyTableLock)>> \o send_message_steps(host),
      send_message_steps(host),
      <<Call(RegistryLock)>> \o send_message_steps(host),
      <<Call(ProxyTableLock)>> \o send_message_steps(host) }

\* the task of a datagram, and cleanup_expired_punch_requests
SignallingSteps(c) ==
    { <<Call(PortLookupsLock), Call(RegistryLock)>> \o send_message_steps(c),
      <<Acq(ByExpiryLock), Call(PortLookupsLock), Call(RegistryLock)>> \o send_message_steps(c)
          \o <<Rel(ByExpiryLock)>> }

\* the sessions of two connections, a relay task and a signalling task
LockSessions == {1, 2}
RelayTask == Cardinality(LockSessions) + 1
SignallingTask == RelayTask + 1
LockTasks == LockSessions \cup {RelayTask, SignallingTask}

TaskSteps(t) ==
    IF t \in LockSessions
    THEN UNION {RegistrationSteps(t, other) \cup HandlerSteps(t, other) :
                    other \in LockSessions \ {t}}
             \cup DequeueSteps(t) \cup ClosePathSteps(t)
    ELSE IF t = RelayTask THEN UNION {RelaySteps(host) : host \in LockSessions}
    ELSE UNION {SignallingSteps(c) : c \in LockSessions}

NoLocking == [held |-> [t \in LockTasks |-> {}], todo |-> [t \in LockTasks |-> <<>>]]

Holds(t, lock) == lock \in locking.held[t]
Free(lock) == \A t \in LockTasks : ~Holds(t, lock)

\* a task begins an operation
Begin(t, steps) ==
    /\ locking.todo[t] = <<>>
    /\ locking' = [locking EXCEPT !.todo[t] = steps]

\* the next step of the operation of a task
Step(t) ==
    LET step == Head(locking.todo[t])
    IN
    /\ locking.todo[t] # <<>>
    /\ step.op \in {"acq", "call"} => Free(step.lock)
    /\ locking' = [locking EXCEPT
                      !.todo[t] = Tail(@),
                      !.held[t] = IF step.op = "acq" THEN @ \cup {step.lock}
                                  ELSE IF step.op = "rel" THEN @ \ {step.lock}
                                  ELSE @]

LockingOnly ==
    UNCHANGED <<pc, conn, connections, remembered_friend_requests,
                received_friend_requests, wire, enc, wrShut, peerGone, err,
                loc, msgs, everAdded, outcome, lastSend, owed>>

(***************************************************************************)
(* IpInfo, RangeMap and IpInfoMap.  A u128 is kept as eight limbs of 16    *)
(* bits and a u32 as two, the least significant first; a packed IpInfo is  *)
(* kept as its bits above LAT_LONG_SHIFT and its bits below; a latitude    *)
(* or longitude is counted in thousandths of a degree.                     *)
(***************************************************************************)
FIXED_11_SHIFT == 11
FIXED_11_MAGNITUDE == 2^FIXED_11_SHIFT
FIXED_11_MASK == 2^FIXED_11_SHIFT - 1
COUNTRY_CHAR_BASE == 65
COUNTRY_CHAR_SHIFT == 5
COUNTRY_CHAR_MASK == 2^COUNTRY_CHAR_SHIFT - 1
LAT_LONG_SHIFT == COUNTRY_CHAR_SHIFT * 2
COUNTRY_MASK == 2^LAT_LONG_SHIFT - 1

\* a | b
RECURSIVE BitOr(_, _)
BitOr(a, b) ==
    IF a = 0 THEN b
    ELSE IF b = 0 THEN a
    ELSE 2 * BitOr(a \div 2, b \div 2) + (IF a % 2 = 1 \/ b % 2 = 1 THEN 1 ELSE 0)

\* Result and Option
Ok(value) == [t |-> "ok", value |-> value]
Failed == [t |-> "err"]
Panicked == [t |-> "panic"]
Some(value) == [t |-> "some", value |-> value]
None == [t |-> "none"]

is_ascii_uppercase(c) == c \in 65..90
is_ascii_lowercase(c) == c \in 97..122

\* CountryCode::validate and CountryCode::new
validate(c) == IF is_ascii_lowercase(c) THEN Ok(c) ELSE Failed
CountryCode_new(a, b) ==
    IF validate(a).t = "ok" /\ validate(b).t = "ok"
    THEN Ok(<<validate(a).value, validate(b).value>>)
    ELSE Failed

\* validate_u8_char and <CountryCode as FromStr>::from_str
validate_u8_char(c) == IF is_ascii_uppercase(c) THEN Ok(c) ELSE Failed
CountryCode_from_str(s) ==
    IF Len(s) # 2 THEN Failed
    ELSE IF validate_u8_char(s[1]).t = "ok" /\ validate_u8_char(s[2]).t = "ok"
    THEN Ok(<<validate_u8_char(s[1]).value, validate_u8_char(s[2]).value>>)
    ELSE Failed

fixed11_to_double(fixed) == (fixed * 360000) \div FIXED_11_MAGNITUDE - 180000
double_to_fixed11(double) ==
    IF double + 180000 < 0 THEN 0
    ELSE ((double + 180000) * FIXED_11_MAGNITUDE) \div 360000

fixed22_to_lat_long(fixed) ==
    <<fixed11_to_double((fixed \div 2^FIXED_11_SHIFT) % 2^FIXED_11_SHIFT),
      fixed11_to_double(fixed % 2^FIXED_11_SHIFT)>>
lat_long_to_fixed22(lat_long) ==
    BitOr(double_to_fixed11(lat_long[1]) * 2^FIXED_11_SHIFT,
          double_to_fixed11(lat_long[2]))

country_char_to_int(char) == char - COUNTRY_CHAR_BASE
country_int_to_char(int) == int + COUNTRY_CHAR_BASE

country_to_int(country) ==
    BitOr(country_char_to_int(country[1]) * 2^COUNTRY_CHAR_SHIFT,
          country_char_to_int(country[2]))

\* CountryCode::new(char1, char2).unwrap()
int_to_country(int) ==
    LET char1 == country_int_to_char((int \div 2^COUNTRY_CHAR_SHIFT) % 2^COUNTRY_CHAR_SHIFT)
        char2 == country_int_to_char(int % 2^COUNTRY_CHAR_SHIFT)
    IN  IF CountryCode_new(char1, char2).t = "ok"
        THEN CountryCode_new(char1, char2)
        ELSE Panicked

IpInfo(country, lat_long) == [country |-> country, lat_long |-> lat_long]

\* IpInfo::to_u32: (lat_long << LAT_LONG_SHIFT) | country
to_u32(info) ==
    LET lat_long == lat_long_to_fixed22(info.lat_long)
        country == country_to_int(info.country)
    IN  [upper |-> BitOr(lat_long % 2^(32 - LAT_LONG_SHIFT), country \div 2^LAT_LONG_SHIFT),
         lower |-> country % 2^LAT_LONG_SHIFT]

\* IpInfo::from_u32
from_u32(x) ==
    IF int_to_country(x.lower).t = "ok"
    THEN Ok(IpInfo(int_to_country(x.lower).value, fixed22_to_lat_long(x.upper)))
    ELSE Panicked

\* a value of 128 bits
U128(top, third, second, first) == <<first, second, third, 0, 0, 0, 0, top>>
U32_MAX == U128(0, 0, 2^16 - 1, 2^16 - 1)

\* a < b and a <= b of two keys of the same width
Below(a, b) ==
    \E i \in 1..Len(a) : a[i] < b[i] /\ \A j \in (i + 1)..Len(a) : a[j] = b[j]
AtMost(a, b) == a = b \/ Below(a, b)

\* x as u32
as_u32(x) == SubSeq(x, 1, 2)
\* x as u128
as_u128(bits) == bits \o [i \in 1..(8 - Len(bits)) |-> 0]

\* RangeMap::new
NewRangeMap == [key |-> <<>>, value |-> <<>>, len |-> 0]

\* RangeMap::put
put(self, min, max, value) ==
    IF self.len > 0 /\ AtMost(min, self.key[(self.len * 2 - 2 + 1) + 1])
    THEN self
    ELSE [key |-> self.key \o <<min, max>>,
          value |-> Append(self.value, value),
          len |-> self.len + 1]

\* <[K]>::binary_search of a sorted slice: the index of any match, or where
\* the key would be inserted; the indexes count from 0
binary_search(keys, key) ==
    IF \E i \in DOMAIN keys : keys[i] = key
    THEN {i - 1 : i \in {j \in DOMAIN keys : keys[j] = key}}
    ELSE {Cardinality({j \in DOMAIN keys : Below(keys[j], key)})}

\* RangeMap::get, for every index binary_search may give
get(self, key) ==
    { IF index % 2 = 1 \/ (index < self.len * 2 /\ self.key[index + 1] = key)
      THEN Some(self.value[(index \div 2) + 1])
      ELSE None : index \in binary_search(self.key, key) }

\* parse_record of a record of the file: its range, the text of its country
\* and its coordinates
parse_record(record) ==
    IF CountryCode_from_str(record.country).t # "ok" THEN Failed
    ELSE Ok([start |-> record.start, end |-> record.end,
             info |-> to_u32(IpInfo(CountryCode_from_str(record.country).value,
                                    record.lat_long))])

\* the closure of load_from_compressed_geolite_city_files
load_record(maps, record) ==
    LET parsed == parse_record(record)
        info == parsed.value
    IN  IF parsed.t # "ok" THEN maps
        ELSE IF Below(info.end, U32_MAX)
        THEN [maps EXCEPT !.four_map =
                  put(@, as_u32(info.start), as_u32(info.end), info.info)]
        ELSE [maps EXCEPT !.six_map = put(@, info.start, info.end, info.info)]

\* IpAddr
V4(second, first) == [v |-> 4, bits |-> <<first, second>>]
V6(top, third, second, first) == [v |-> 6, bits |-> U128(top, third, second, first)]

\* IpInfoMap::get, before .map(IpInfo::from_u32)
get_bits(maps, addr) ==
    LET addr_bits == as_u128(addr.bits)
    IN  IF AtMost(addr_bits, U32_MAX)
        THEN get(maps.four_map, as_u32(addr_bits))
        ELSE get(maps.six_map, addr_bits)

\* the addresses of the lookups and the records of the files
GeoAddrs ==
    { V4(0, 10), V4(0, 20), V4(2^16 - 1, 2^16 - 2), V4(2^16 - 1, 2^16 - 1),
      V6(0, 1, 0, 0), V6(8193, 0, 0, 0) }
GeoInfos ==
    { [country |-> <<85, 83>>, lat_long |-> <<38000, -97000>>],
      [country |-> <<68, 69>>, lat_long |-> <<51000, 9000>>],
      [country |-> <<117, 115>>, lat_long |-> <<90000, 180000>>] }
GeoMixed ==
    { [start |-> as_u128(a.bits), end |-> as_u128(b.bits),
       country |-> i.country, lat_long |-> i.lat_long] :
          a \in {c \in GeoAddrs : c.v = 4}, b \in {c \in GeoAddrs : c.v = 6},
          i \in GeoInfos }
GeoRecords ==
    { [start |-> as_u128(a.bits), end |-> as_u128(b.bits),
       country |-> i.country, lat_long |-> i.lat_long] :
          a \in GeoAddrs, b \in GeoAddrs, i \in GeoInfos } \ GeoMixed

\* IpInfoMap::default, and nothing loaded or looked up
NoGeo ==
    [four_map |-> NewRangeMap, six_map |-> NewRangeMap,
     loading |-> TRUE,
     accepted |-> <<>>, last |-> "none", record |-> None, before |-> None,
     asked |-> None, found |-> None, info |-> None, country |-> None]

\* the maps of the state
GeoMaps(g) == [four_map |-> g.four_map, six_map |-> g.six_map]

\* the ranges taken that went where a record goes
Family(accepted, record) ==
    SelectSeq(accepted, LAMBDA r : Below(r.end, U32_MAX) <=> Below(record.end, U32_MAX))

\* one record of a file is read
LoadRecord(record) ==
    LET maps == load_record(GeoMaps(geo), record)
        family == Family(geo.accepted, record)
        parsed == parse_record(record)
    IN
    /\ geo.loading
    /\ AtMost(record.start, record.end)
    /\ geo.four_map.len + geo.six_map.len < MaxRanges
    /\ geo' = [geo EXCEPT
                  !.four_map = maps.four_map,
                  !.six_map = maps.six_map,
                  !.accepted =
                      IF maps # GeoMaps(geo)
                      THEN Append(@, [start |-> record.start, end |-> record.end,
                                      info |-> parsed.value.info,
                                      country |-> CountryCode_from_str(record.country).value])
                      ELSE @,
                  !.last = IF parsed.t # "ok" THEN "skipped"
                           ELSE IF family # <<>>
                                   /\ AtMost(record.start, family[Len(family)].end)
                           THEN "rejected"
                           ELSE "put",
                  !.record = Some(record),
                  !.before = Some(GeoMaps(geo))]

\* the files are read to their end
Loaded ==
    /\ geo.loading
    /\ geo' = [geo EXCEPT !.loading = FALSE]

\* the lookup of the Live transition: state.ip_info_map.get(remote_addr),
\* and the country of the connection
Lookup(addr) ==
    /\ ~geo.loading
    /\ \E found \in get_bits(GeoMaps(geo), addr) :
          LET info == IF found.t = "some" THEN from_u32(found.value) ELSE None
          IN  geo' = [geo EXCEPT
                         !.asked = Some(addr),
                         !.found = found,
                         !.info = info,
                         !.country = IF info.t = "ok" THEN Some(info.value.country)
                                     ELSE info]

GeoOnly ==
    UNCHANGED <<pc, conn, connections, remembered_friend_requests,
                received_friend_requests, wire, enc, wrShut, peerGone, err,
                loc, msgs, everAdded, outcome, lastSend, owed>>

\* a server without base address
NoBaseAddr == [base_addr |-> "", ex_java_port |-> 25565]

\* JoinType
UPnP(port) == [kind |-> "UPnP", port |-> port]
Proxy == [kind |-> "Proxy", port |-> 0]
Punch == [kind |-> "Punch", port |-> 0]

NoGrant == [n |-> 0, from |-> 0, connection_id |-> 0, join_type |-> Punch]

GrantingInit(server_config) ==
    /\ config = server_config
    /\ external_proxy = EmptyMap
    /\ lastGrant = NoGrant

\* the state outside the sessions, but for the configuration
ServicesInit ==
    /\ ProxyingInit
    /\ rx = NoRead
    /\ now = 0
    /\ port_lookups = EmptyMap
    /\ port_lookup_by_expiry = <<>>
    /\ begun = {}
    /\ entries = [i \in DOMAIN RateLimitBuckets |-> EmptyMap]
    /\ calls = [i \in DOMAIN RateLimitBuckets |-> EmptyMap]
    /\ verdict = NoVerdict

SubsystemsInit == ServicesInit /\ GrantingInit(NoBaseAddr) /\ codec = NoCodec /\ locking = NoLocking /\ geo = NoGeo

SessionsInit(sessions, at) ==
    /\ pc = [c \in sessions |-> at]
    /\ conn = [c \in sessions |-> NoConn]
    /\ connections = NewConnectionSet
    /\ remembered_friend_requests = EmptyMap
    /\ received_friend_requests = EmptyMap
    /\ wire = [c \in sessions |-> <<>>]
    /\ enc = [c \in sessions |-> 0]
    /\ wrShut = [c \in sessions |-> FALSE]
    /\ peerGone = [c \in sessions |-> FALSE]
    /\ err = [c \in sessions |-> ""]
    /\ loc = [c \in sessions |-> NoLoc]
    /\ msgs = 0
    /\ everAdded = [c \in sessions |-> FALSE]
    /\ outcome = [c \in sessions |-> NoOutcome]
    /\ lastSend = NoSend
    /\ owed = {}

InitOf(sessions) ==
    /\ SessionsInit(sessions, "idle")
    /\ SubsystemsInit

Init == InitOf(Conns)

InitTrio == InitOf(1..NTrio)

(***************************************************************************)
(* The client closes its end of the socket of an established session.      *)
(***************************************************************************)
PeerDisconnect(c) ==
    /\ pc[c] \notin {"idle", "closing", "done"}
    /\ ~peerGone[c]
    /\ peerGone' = [peerGone EXCEPT ![c] = TRUE]
    /\ UNCHANGED <<pc, conn, connections, remembered_friend_requests,
                   received_friend_requests, wire, enc, wrShut, err, loc, msgs,
                   everAdded, outcome, lastSend, owed>>

(***************************************************************************)
(* handle_connection, the version check: a client that sends nothing is a  *)
(* ping; a version outside SUPPORTED is answered with a critical Error     *)
(* that names the version.                                                 *)
(***************************************************************************)
ReadVersion(c, protocol_version) ==
    /\ pc[c] = "idle"
    /\ \A earlier \in 1..(c - 1) : pc[earlier] # "idle"
    /\ protocol_version = EOF \/ protocol_version \notin SUPPORTED
    /\ pc' = [pc EXCEPT ![c] = "done"]
    /\ IF protocol_version = EOF
       THEN /\ outcome' = [outcome EXCEPT ![c] = Ended("ping")]
            /\ UNCHANGED <<conn, wire, wrShut>>
       ELSE /\ outcome' = [outcome EXCEPT ![c] = Ended("Unsupported protocol version")]
            /\ conn' = [conn EXCEPT ![c].protocol_version = protocol_version]
            /\ wire' = [wire EXCEPT ![c] =
                          <<Frame("Error", "Unsupported protocol version", 1,
                                  protocol_version)>>]
            /\ wrShut' = [wrShut EXCEPT ![c] = TRUE]
    /\ UNCHANGED <<connections, remembered_friend_requests,
                   received_friend_requests, enc, peerGone, err, loc, msgs,
                   everAdded, lastSend, owed>>

(***************************************************************************)
(* handle_connection from create_connection to the registration loop: the  *)
(* handshake and its outcome, connection_out, then ConnectionInfo,         *)
(* OutdatedWorldHost and the upgrade notice, each followed by ?.           *)
(* drop tells when the client closes its end: "no", during the             *)
(* "handshake" (its reads fail) or before the server "greet"s (the         *)
(* server's writes fail).  read_ok is false for a handshake that cannot be *)
(* decoded.                                                                *)
(***************************************************************************)
latest_visible_protocol_version(protocol_version) ==
    IF protocol_version <= STABLE THEN STABLE ELSE CURRENT

GreetingTypes(protocol_version, user_uuid) ==
    LET latest == latest_visible_protocol_version(protocol_version)
    IN  <<"ConnectionInfo">>
        \o (IF protocol_version < latest THEN <<"OutdatedWorldHost">> ELSE <<>>)
        \o (IF SecurityLevelFrom(user_uuid, protocol_version >= NEW_AUTH_PROTOCOL) = Insecure
               /\ get_version_num(user_uuid) = 4
            THEN <<"Error">> ELSE <<>>)

GreetingFrame(t, connection_id, protocol_version) ==
    IF t = "ConnectionInfo"
    THEN ConnectionInfoFrame(connection_id, latest_visible_protocol_version(protocol_version))
    ELSE IF t = "OutdatedWorldHost" THEN OutdatedFrame
    ELSE ErrorFrame("You are using an old insecure version of World Host.", FALSE)

GreetingFrames(protocol_version, user_uuid, connection_id) ==
    LET types == GreetingTypes(protocol_version, user_uuid)
    IN  [i \in 1..Len(types) |-> GreetingFrame(types[i], connection_id, protocol_version)]

\* the inputs a handshake reads; what it does not read is held at one value
ChallengeInputs(protocol_version) ==
    IF protocol_version < NEW_AUTH_PROTOCOL THEN {TRUE} ELSE BOOLEAN

ProfileInputs(protocol_version, requested_uuid, challenge_ok) ==
    IF protocol_version >= NEW_AUTH_PROTOCOL /\ challenge_ok
       /\ get_version_num(requested_uuid) = 4
    THEN Profiles ELSE {ProfileNone}

OfflineInputs(protocol_version, requested_uuid, challenge_ok) ==
    IF protocol_version >= NEW_AUTH_PROTOCOL /\ challenge_ok
       /\ get_version_num(requested_uuid) # 4
    THEN OfflineUuids ELSE {ForeignOfflineUuid}

\* addresses and ids are named in the order of their first use
AddrInputs == {a \in Addrs : a <= Cardinality({conn[x].addr : x \in DOMAIN conn} \ {0}) + 1}
IdInputs == {i \in Ids : i <= Cardinality({conn[x].id : x \in DOMAIN conn} \ {0}) + 1}

\* the n-th user to connect is one of the first n users
UserInputs ==
    {u \in Users :
        u <= Cardinality({conn[x].user_uuid : x \in DOMAIN conn} \ {NoUuid}) + 1}

Establish(c, remote_addr, protocol_version, requested_uuid, connection_id, read_ok, challenge_ok, has_joined, offline_uuid, drop) ==
    LET result == HandshakeResult(protocol_version, requested_uuid, challenge_ok,
                                  has_joined, offline_uuid)
        verified == verify_profile(requested_uuid, has_joined, offline_uuid)
        shaken == [message |-> IF result.message # "" THEN result.message ELSE "ok",
                   challenge_ok |-> challenge_ok,
                   fatal |-> /\ protocol_version >= NEW_AUTH_PROTOCOL
                             /\ challenge_ok
                             /\ is_mismatch(verified)
                             /\ verified.mismatch_is_error,
                   verify |-> IF protocol_version >= NEW_AUTH_PROTOCOL /\ challenge_ok
                              THEN [requested_uuid |-> requested_uuid,
                                    has_joined |-> has_joined,
                                    offline_uuid |-> offline_uuid]
                              ELSE Unverified]
        cipher == protocol_version >= ENCRYPTED_PROTOCOL
        writes_ok == drop = "no"
        greeting == Passed(protocol_version,
                           GreetingFrames(protocol_version, requested_uuid, connection_id))
    IN
    /\ pc[c] = "idle"
    /\ \A earlier \in 1..(c - 1) : pc[earlier] # "idle"
    /\ peerGone' = [peerGone EXCEPT ![c] = drop # "no"]
    /\ IF drop = "handshake" \/ ~read_ok
       THEN \* perform_versioned_handshake returned Err
            /\ outcome' = [Forgotten EXCEPT ![c] = Ended("io error")]
            /\ conn' = [conn EXCEPT ![c].protocol_version = protocol_version]
            /\ wire' = IF writes_ok
                       THEN [wire EXCEPT ![c] = <<ErrorFrame("io error", TRUE)>>] ELSE wire
            /\ wrShut' = [wrShut EXCEPT ![c] = TRUE]
            /\ pc' = [pc EXCEPT ![c] = "done"]
            /\ UNCHANGED <<enc, err>>
       ELSE IF ~result.success
       THEN \* the handshake failed: close_error(message)
            /\ outcome' = [Forgotten EXCEPT ![c] = shaken]
            /\ conn' = [conn EXCEPT ![c].protocol_version = protocol_version]
            /\ wire' = IF writes_ok
                       THEN [wire EXCEPT ![c] = <<ErrorFrame(result.message, TRUE)>>]
                       ELSE wire
            /\ enc' = EncAdvance(enc, c, cipher)
            /\ wrShut' = [wrShut EXCEPT ![c] = TRUE]
            /\ pc' = [pc EXCEPT ![c] = "done"]
            /\ UNCHANGED err
       ELSE IF result.message # "" /\ ~writes_ok
       THEN \* the Warning could not be sent: create_connection returns None
            /\ outcome' = [Forgotten EXCEPT ![c] = shaken]
            /\ conn' = [conn EXCEPT ![c].protocol_version = protocol_version]
            /\ enc' = EncAdvance(enc, c, cipher)
            /\ pc' = [pc EXCEPT ![c] = "done"]
            /\ UNCHANGED <<wire, wrShut, err>>
       ELSE \* Some(Connection): connection_out is set
            /\ outcome' = [Forgotten EXCEPT ![c] = shaken]
            /\ conn' = [conn EXCEPT ![c] =
                          [id |-> connection_id, addr |-> remote_addr,
                           user_uuid |-> requested_uuid,
                           protocol_version |-> protocol_version]]
            /\ wrShut' = wrShut
            /\ IF writes_ok
               THEN /\ wire' = [wire EXCEPT ![c] =
                                  (IF result.message # ""
                                   THEN <<WarningFrame(result.message)>> ELSE <<>>)
                                  \o greeting]
                    /\ enc' = IF cipher
                              THEN [enc EXCEPT ![c] =
                                      Len(greeting) + (IF result.message # "" THEN 1 ELSE 0)]
                              ELSE enc
                    /\ pc' = [pc EXCEPT ![c] = "register"]
                    /\ UNCHANGED err
               ELSE /\ enc' = EncAdvance(enc, c, cipher)
                    /\ err' = [err EXCEPT ![c] = "io error"]
                    /\ pc' = [pc EXCEPT ![c] = "closing"]
                    /\ UNCHANGED wire
    /\ UNCHANGED <<connections, remembered_friend_requests,
                   received_friend_requests, loc, msgs, everAdded, lastSend, owed>>

\* the handshakes of a session of the given protocol version
Handshakes(c, protocol_version, addrs, ids) ==
    \/ \E drop \in {"no", "handshake"}, read_ok \in BOOLEAN :
          /\ read_ok = (drop = "handshake")
          /\ Establish(c, 1, protocol_version, NilUuid, 1, read_ok, TRUE,
                       ProfileNone, ForeignOfflineUuid, drop)
    \/ \E drop \in {"no", "greet"}, remote_addr \in addrs,
          requested_uuid \in Uuids, connection_id \in ids,
          challenge_ok \in ChallengeInputs(protocol_version) :
            \E has_joined \in ProfileInputs(protocol_version, requested_uuid, challenge_ok),
               offline_uuid \in OfflineInputs(protocol_version, requested_uuid, challenge_ok) :
                Establish(c, remote_addr, protocol_version, requested_uuid,
                          connection_id, TRUE, challenge_ok, has_joined,
                          offline_uuid, drop)

\* a session of the server: the version passed the check against SUPPORTED
Handshake(c) ==
    /\ pc[c] = "idle"
    /\ \E protocol_version \in SUPPORTED :
          Handshakes(c, protocol_version, AddrInputs, IdInputs)

\* a session whose client connects from one address and, when it gets that
\* far, with a connection id of its own
HandshakeApart(c) ==
    /\ pc[c] = "idle"
    /\ \E protocol_version \in SUPPORTED : Handshakes(c, protocol_version, {1}, {c})

\* a client of the given protocol version that completes the handshake
\* with its own uuid and stays connected
Joins(c, users, protocol_version, remote_addr, connection_id) ==
    \E requested_uuid \in users :
        Establish(c, remote_addr, protocol_version, requested_uuid, connection_id,
                  TRUE, TRUE,
                  IF get_version_num(requested_uuid) = 4 THEN requested_uuid
                  ELSE ProfileNone,
                  IF get_version_num(requested_uuid) = 4 THEN ForeignOfflineUuid
                  ELSE requested_uuid,
                  "no")

Join(c) ==
    /\ pc[c] = "idle"
    /\ \E protocol_version \in SUPPORTED, remote_addr \in AddrInputs,
          connection_id \in IdInputs :
            Joins(c, UserInputs, protocol_version, remote_addr, connection_id)

\* a client that joins from one address with a connection id of its own
JoinApart(c) ==
    /\ pc[c] = "idle"
    /\ \E protocol_version \in SUPPORTED : Joins(c, Users, protocol_version, 1, c)

\* the versions that get_version_name names
NamedVersions == 2..CURRENT

\* handle_connection entered after the version check by a client of the
\* last protocol with the legacy handshake, or of the current protocol
LegacyAndCurrent == {NEW_AUTH_PROTOCOL - 1, CURRENT}

JoinLegacyOrCurrent(c) ==
    /\ pc[c] = "idle"
    /\ \E protocol_version \in LegacyAndCurrent : Joins(c, Users, protocol_version, 1, c)

\* such a client that connects once the clients before it have been added
\* to the registry
JoinInTurn(c) ==
    /\ \A earlier \in 1..(c - 1) : pc[earlier] # "register"
    /\ JoinLegacyOrCurrent(c)

(***************************************************************************)
(* The registration loop of handle_connection.                             *)
(***************************************************************************)
\* while !connections.lock().await.add(connection.clone())
TryAdd(c) ==
    /\ pc[c] = "register"
    /\ IF add_ok(connections, c)
       THEN /\ connections' = add(connections, c)
            /\ everAdded' = [everAdded EXCEPT ![c] = TRUE]
            /\ pc' = [pc EXCEPT ![c] = "dequeue"]
       ELSE /\ pc' = [pc EXCEPT ![c] = "collide"]
            /\ UNCHANGED <<connections, everAdded>>
    /\ UNCHANGED <<conn, remembered_friend_requests, received_friend_requests,
                   wire, enc, wrShut, peerGone, err, loc, msgs, outcome, lastSend, owed>>

\* a loop that takes the id over from any incumbent
same_ip_any(other, c) == TRUE

\* other.addr == connection.addr
same_ip(other, c) == conn[other].addr = conn[c].addr

\* the body of the loop up to the release of the registry lock
Collide(c) ==
    LET other == by_id(connections, conn[c].id)
    IN
    /\ pc[c] = "collide"
    /\ IF other # 0 /\ same_ip(other, c)
       THEN /\ wire' = WireAfterClose(wire, other, "Connection ID taken by same IP")
            /\ enc' = EncAdvance(enc, other, HasCipher(other))
            /\ wrShut' = [wrShut EXCEPT ![other] = TRUE]
            /\ connections' = add_force(connections, c)
            /\ everAdded' = [everAdded EXCEPT ![c] = TRUE]
            /\ pc' = [pc EXCEPT ![c] = "dequeue"]
       ELSE /\ pc' = [pc EXCEPT ![c] = "retry"]
            /\ UNCHANGED <<wire, enc, wrShut, connections, everAdded>>
    /\ UNCHANGED <<conn, remembered_friend_requests, received_friend_requests,
                   peerGone, err, loc, msgs, outcome, lastSend, owed>>

\* the check of the 500 ms deadline, then yield_now
Retry(c, elapsed) ==
    /\ pc[c] = "retry"
    /\ IF elapsed
       THEN /\ wire' = WireAfterClose(wire, c, "That connection ID is taken.")
            /\ enc' = EncAdvance(enc, c, HasCipher(c))
            /\ wrShut' = [wrShut EXCEPT ![c] = TRUE]
            /\ pc' = [pc EXCEPT ![c] = "closing"]
       ELSE /\ pc' = [pc EXCEPT ![c] = "register"]
            /\ UNCHANGED <<wire, enc, wrShut>>
    /\ UNCHANGED <<conn, connections, remembered_friend_requests,
                   received_friend_requests, peerGone, err, loc, msgs, everAdded,
                   outcome, lastSend, owed>>

(***************************************************************************)
(* dequeue_friend_requests: the received set of the user is taken out of   *)
(* the store, then every sender is announced and its remembered entry      *)
(* dropped; a failed send ends the function (and the session) with ?.      *)
(***************************************************************************)
\* the requests still owed once connection c is live: those of its user are
\* settled, unless another connection of the user is announcing them
OwedAfterLive(c) ==
    IF \E other \in DOMAIN pc \ {c} :
          pc[other] = "dequeuing" /\ conn[other].user_uuid = conn[c].user_uuid
    THEN owed
    ELSE {p \in owed : p[2] # conn[c].user_uuid}

DequeueTake(c) ==
    LET user == conn[c].user_uuid
    IN
    /\ pc[c] = "dequeue"
    /\ IF user \in DOMAIN received_friend_requests
       THEN /\ received_friend_requests' = Del(received_friend_requests, user)
            /\ loc' = [loc EXCEPT ![c].dq = received_friend_requests[user]]
            /\ pc' = [pc EXCEPT ![c] = "dequeuing"]
       ELSE /\ pc' = [pc EXCEPT ![c] = "live"]
            /\ UNCHANGED <<received_friend_requests, loc>>
    /\ owed' = IF pc'[c] = "live" THEN OwedAfterLive(c) ELSE owed
    /\ UNCHANGED <<conn, connections, remembered_friend_requests, wire, enc,
                   wrShut, peerGone, err, msgs, everAdded, outcome, lastSend>>

DequeueStep(c) ==
    LET received_from == Head(loc[c].dq)
        message == FriendRequestFrame(received_from, SecurityLevelFrom(received_from, TRUE))
    IN
    /\ pc[c] = "dequeuing"
    /\ wire' = WireAfterSend(wire, {c}, message)
    /\ enc' = EncAfterSend(enc, {c}, message)
    /\ IF send_message_ok(c, message)
       THEN /\ remembered_friend_requests' =
                   remove_double_key(remembered_friend_requests, received_from,
                                     conn[c].user_uuid)
            /\ loc' = [loc EXCEPT ![c].dq = Tail(@)]
            /\ pc' = [pc EXCEPT ![c] = IF Tail(loc[c].dq) = <<>> THEN "live"
                                       ELSE "dequeuing"]
            /\ UNCHANGED err
       ELSE /\ loc' = [loc EXCEPT ![c].dq = <<>>]
            /\ pc' = [pc EXCEPT ![c] = "closing"]
            /\ err' = [err EXCEPT ![c] = "io error"]
            /\ UNCHANGED remembered_friend_requests
    /\ owed' = IF pc'[c] = "live" THEN OwedAfterLive(c) ELSE owed
    /\ UNCHANGED <<conn, connections, received_friend_requests, wrShut,
                   peerGone, msgs, everAdded, outcome, lastSend>>

(***************************************************************************)
(* The receive loop: recv_message fails (disconnect, read error, bad       *)
(* frame) and the session ends, or a message is handled.                   *)
(***************************************************************************)
RecvFail(c) ==
    /\ pc[c] = "live"
    /\ pc' = [pc EXCEPT ![c] = "closing"]
    /\ UNCHANGED <<conn, connections, remembered_friend_requests,
                   received_friend_requests, wire, enc, wrShut, peerGone, err,
                   loc, msgs, everAdded, outcome, lastSend, owed>>

(***************************************************************************)
(* SocketReadWrapper::recv_message, read by read.  The client sends the    *)
(* length, then `sent` bytes, then nothing more.  A frame is its length,   *)
(* its type id and, for a FriendRequest, the user it names.                *)
(***************************************************************************)
MaxMessageSize == 2097152   \* 2 * 1024 * 1024
SKIP_BUFFER_SIZE == 2048

FRIEND_REQUEST_ID == 1
REQUEST_PUNCH_OPEN_ID == 12
UnknownId == 16

first_protocol_version(id) ==
    IF id \in 0..9 THEN 2
    ELSE IF id = 10 THEN 4
    ELSE IF id = 11 THEN 5
    ELSE IF id \in 12..15 THEN 7
    ELSE 0

\* the bytes parse_raw reads at least: a uuid; a connection id, three
\* strings, a uuid and two u16
BodyNeeds(id) == IF id = FRIEND_REQUEST_ID THEN 16 ELSE 8 + 2 + 16 + 2 + 2 + 2 + 2

\* WorldHostC2SMessage::parse of a body of len bytes: "" is Ok
parse(id, len, max_protocol_version) ==
    IF first_protocol_version(id) = 0 THEN "unknown typeId"
    ELSE IF first_protocol_version(id) > max_protocol_version THEN "too new message"
    ELSE IF len < BodyNeeds(id) THEN "failed to fill whole buffer"
    ELSE ""

Smaller(a, b) == IF a < b THEN a ELSE b

\* what the reads of the frames told so far
Told(result) == [rx EXCEPT !.at = IF result = "" THEN "idle" ELSE "failed",
                           !.result = result]

\* the length prefix; a length of 0 is refused at once
RecvSize(c, size, sent, id) ==
    /\ pc[c] = "live"
    /\ rx.at = "idle"
    /\ rx.reads < MaxFrames
    /\ rx' = [at |-> IF size = 0 THEN "failed"
                     ELSE IF size > MaxMessageSize THEN "skip" ELSE "data",
              size |-> size, remaining |-> size, consumed |-> 0, left |-> sent,
              id |-> id, reads |-> rx.reads + 1, shorts |-> rx.shorts,
              result |-> IF size = 0 THEN "Message is empty" ELSE ""]
    /\ pc' = IF size = 0 THEN [pc EXCEPT ![c] = "closing"] ELSE pc
    /\ UNCHANGED <<conn, connections, remembered_friend_requests,
                   received_friend_requests, wire, enc, wrShut, peerGone, err,
                   loc, msgs, everAdded, outcome, lastSend, owed>>

\* reads into the whole of skip_buf
SkipReads_whole_buffer ==
    LET asked == SKIP_BUFFER_SIZE
    IN  IF rx.left = 0 THEN {0}
        ELSE {Smaller(asked, rx.left)}
             \cup (IF rx.shorts < MaxShortReads THEN {1} ELSE {})

\* what one read into skip_buf can return: nothing at the end of the
\* stream, else up to the bytes asked for
SkipReads ==
    LET asked == Smaller(rx.remaining, SKIP_BUFFER_SIZE)
    IN  IF rx.left = 0 THEN {0}
        ELSE {Smaller(asked, rx.left)}
             \cup (IF rx.shorts < MaxShortReads THEN {1} ELSE {})

\* one turn of the loop that skips an oversize frame
RecvSkip(c, n) ==
    /\ pc[c] = "live"
    /\ rx.at = "skip"
    /\ n \in SkipReads
    /\ rx' = [rx EXCEPT !.remaining = @ - n, !.consumed = @ + n, !.left = @ - n,
                        !.shorts = IF n < Smaller(Smaller(rx.remaining, SKIP_BUFFER_SIZE),
                                                  rx.left)
                                   THEN @ + 1 ELSE @,
                        !.at = IF rx.remaining = n THEN "failed" ELSE "skip",
                        !.result = IF rx.remaining = n
                                   THEN "Messages bigger than 2 MB are not allowed."
                                   ELSE ""]
    /\ pc' = IF rx.remaining = n THEN [pc EXCEPT ![c] = "closing"] ELSE pc
    /\ UNCHANGED <<conn, connections, remembered_friend_requests,
                   received_friend_requests, wire, enc, wrShut, peerGone, err,
                   loc, msgs, everAdded, outcome, lastSend, owed>>

\* the sizes, stream lengths and type ids of the frames the client sends
FrameSizes == {0, 1, 1 + BodyNeeds(FRIEND_REQUEST_ID), MaxMessageSize, MaxMessageSize + 1}
FrameIds(size) ==
    IF size > 1 + BodyNeeds(FRIEND_REQUEST_ID) THEN {FRIEND_REQUEST_ID}
    ELSE {FRIEND_REQUEST_ID, REQUEST_PUNCH_OPEN_ID, UnknownId}
Sent(size) == {n \in {size - 1, size, size + 1} : n >= 0}

(***************************************************************************)
(* handle_message, FriendRequest { to_user }.                              *)
(***************************************************************************)
\* a handler that does not skip the connection of the sender
FriendRequestRecipients_all(c, to_user) ==
    Range(by_user_id(connections, to_user))

\* for other in other_connections, if other.id != connection.id
FriendRequestRecipients(c, to_user) ==
    {other \in Range(by_user_id(connections, to_user)) : conn[other].id # conn[c].id}

HandleFriendRequest(c, to_user) ==
    LET response == FriendRequestFrame(conn[c].user_uuid, security_level(c))
        other_connections == by_user_id(connections, to_user)
    IN
    /\ pc[c] = "live"
    /\ ~peerGone[c]
    /\ msgs < MaxMsgs
    /\ msgs' = msgs + 1
    /\ IF other_connections # <<>>
       THEN /\ wire' = WireAfterSend(wire, FriendRequestRecipients(c, to_user), response)
            /\ enc' = EncAfterSend(enc, FriendRequestRecipients(c, to_user), response)
            /\ UNCHANGED <<pc, loc>>
       ELSE IF security_level(c) > Insecure
       THEN /\ pc' = [pc EXCEPT ![c] = "fr_remember"]
            /\ loc' = [loc EXCEPT ![c].to = to_user]
            /\ UNCHANGED <<wire, enc>>
       ELSE UNCHANGED <<pc, loc, wire, enc>>
    /\ owed' = owed \ {<<conn[c].user_uuid, to_user>>}
    /\ UNCHANGED <<conn, connections, remembered_friend_requests,
                   received_friend_requests, wrShut, peerGone, err, everAdded,
                   outcome, lastSend>>

\* the body of a frame that is not oversize: read_exact, parse, and for a
\* message handle_message
RecvData(c, to_user) ==
    LET message == parse(rx.id, rx.size - 1, conn[c].protocol_version)
    IN
    /\ pc[c] = "live"
    /\ rx.at = "data"
    /\ IF rx.left < rx.size
       THEN /\ rx' = [Told("early eof") EXCEPT !.consumed = rx.left, !.left = 0]
            /\ pc' = [pc EXCEPT ![c] = "closing"]
            /\ UNCHANGED <<conn, connections, remembered_friend_requests,
                           received_friend_requests, wire, enc, wrShut, peerGone,
                           err, loc, msgs, everAdded, outcome, lastSend, owed>>
       ELSE IF message # ""
       THEN /\ rx' = [Told(message) EXCEPT !.consumed = rx.size, !.left = @ - rx.size]
            /\ pc' = [pc EXCEPT ![c] = "closing"]
            /\ UNCHANGED <<conn, connections, remembered_friend_requests,
                           received_friend_requests, wire, enc, wrShut, peerGone,
                           err, loc, msgs, everAdded, outcome, lastSend, owed>>
       ELSE /\ rx' = [Told("") EXCEPT !.consumed = rx.size, !.left = @ - rx.size]
            /\ HandleFriendRequest(c, to_user)

(***************************************************************************)
(* handle_message, ListOnline { friends }: broadcast_to_friends.           *)
(***************************************************************************)
IsOnlineToFrame(user) == Frame("IsOnlineTo", "", user, 0)

\* the connections broadcast_to_friends sends to, in the order of its sends
RECURSIVE broadcast_targets(_, _)
broadcast_targets(c, friends) ==
    IF friends = <<>> THEN <<>>
    ELSE SelectSeq(by_user_id(connections, Head(friends)),
                   LAMBDA other : conn[other].id # conn[c].id)
             \o broadcast_targets(c, Tail(friends))

\* a broadcast that gives up at the first send that fails
RECURSIVE send_until_error(_, _, _)
send_until_error(sockets, targets, message) ==
    IF targets = <<>> THEN sockets
    ELSE LET sent == [w |-> WireAfterSend(sockets.w, {Head(targets)}, message),
                      e |-> EncAfterSend(sockets.e, {Head(targets)}, message)]
         IN  IF send_message_ok(Head(targets), message)
             THEN send_until_error(sent, Tail(targets), message)
             ELSE sent

\* send_safely for each of the targets: the sockets after the sends
RECURSIVE send_safely(_, _, _)
send_safely(sockets, targets, message) ==
    IF targets = <<>> THEN sockets
    ELSE send_safely([w |-> WireAfterSend(sockets.w, {Head(targets)}, message),
                      e |-> EncAfterSend(sockets.e, {Head(targets)}, message)],
                     Tail(targets), message)

HandleListOnline(c, friends) ==
    LET sockets == send_safely([w |-> wire, e |-> enc], broadcast_targets(c, friends),
                               IsOnlineToFrame(conn[c].user_uuid))
    IN
    /\ pc[c] = "live"
    /\ ~peerGone[c]
    /\ msgs < MaxMsgs
    /\ msgs' = msgs + 1
    /\ wire' = sockets.w
    /\ enc' = sockets.e
    /\ UNCHANGED <<pc, conn, connections, remembered_friend_requests,
                   received_friend_requests, wrShut, peerGone, err, loc,
                   everAdded, outcome, lastSend, owed>>

(***************************************************************************)
(* The external proxy of a session, and handle_message, JoinGranted        *)
(* { connection_id, join_type }.                                           *)
(***************************************************************************)
\* external_proxies.json: a server with base address, one without, and the
\* entry of this server, which has no address
ExternalServers ==
    {[addr |-> "eu.example", port |-> 9656, base_addr |-> "eu.wh.example", mc_port |-> 25566],
     [addr |-> "us.example", port |-> 9656, base_addr |-> "", mc_port |-> 25567],
     [addr |-> "", port |-> 9656, base_addr |-> "wh.example", mc_port |-> 25565]}

\* the configurations of the server
Configs == {NoBaseAddr, [base_addr |-> "wh.example", ex_java_port |-> 25565]}

NoExternalProxy == [addr |-> "", port |-> 0, base_addr |-> "", mc_port |-> 0]

\* connection.state.external_proxy
external_proxy_of(c) ==
    IF c \in DOMAIN external_proxy THEN external_proxy[c] ELSE NoExternalProxy

ExternalProxyServerFrame(proxy) ==
    Frame("ExternalProxyServer",
          <<proxy.addr, IF proxy.base_addr # "" THEN proxy.base_addr ELSE proxy.addr>>,
          proxy.port, proxy.mc_port)

\* handle_connection before the registration: the address of the client is
\* in the ip_info_map and proxy is the external server nearest to it
ChooseExternalProxy(c, proxy) ==
    LET message == ExternalProxyServerFrame(proxy)
    IN
    /\ pc[c] = "register"
    /\ c \notin DOMAIN external_proxy
    /\ IF proxy.addr # ""
       THEN /\ external_proxy' = Put(external_proxy, c, proxy)
            /\ wire' = WireAfterSend(wire, {c}, message)
            /\ enc' = EncAfterSend(enc, {c}, message)
            /\ IF send_message_ok(c, message)
               THEN UNCHANGED <<pc, err>>
               ELSE /\ err' = [err EXCEPT ![c] = "io error"]
                    /\ pc' = [pc EXCEPT ![c] = "closing"]
       ELSE UNCHANGED <<external_proxy, wire, enc, pc, err>>
    /\ UNCHANGED <<conn, connections, remembered_friend_requests,
                   received_friend_requests, wrShut, peerGone, loc, msgs,
                   everAdded, outcome, lastSend, owed, config, lastGrant>>

OnlineGameFrame(host, port, owner_cid) == Frame("OnlineGame", host, port, owner_cid)
NoResponse == Frame("", "", 0, 0)

\* JoinType::to_online_game; a host is the address of the connection as a
\* string, or the connection id as a string and the base address after it
to_online_game(join_type, c) ==
    IF join_type.kind = "UPnP"
    THEN OnlineGameFrame(<<ToString(conn[c].addr)>>, join_type.port, conn[c].id)
    ELSE IF join_type.kind = "Proxy"
    THEN LET proxy == IF conn[c].protocol_version >= 3
                      THEN external_proxy_of(c) ELSE NoExternalProxy
             base_addr == IF proxy # NoExternalProxy /\ proxy.base_addr # ""
                          THEN proxy.base_addr ELSE config.base_addr
             port == IF proxy # NoExternalProxy THEN proxy.mc_port
                     ELSE config.ex_java_port
         IN  IF base_addr = "" THEN NoResponse
             ELSE OnlineGameFrame(<<ToString(conn[c].id), base_addr>>, port, conn[c].id)
    ELSE NoResponse

UnsupportedJoinType(join_type) ==
    ErrorFrame(<<"This server does not support JoinType", join_type.kind>>, FALSE)

\* a handler that forwards to whoever holds the connection id
GrantTarget_any(c, connection_id) == by_id(connections, connection_id)

\* if connection_id != connection.id, connections.by_id(connection_id)
GrantTarget(c, connection_id) ==
    IF connection_id # conn[c].id THEN by_id(connections, connection_id) ELSE 0

HandleJoinGranted(c, connection_id, join_type) ==
    LET response == to_online_game(join_type, c)
        other == GrantTarget(c, connection_id)
    IN
    /\ pc[c] = "live"
    /\ ~peerGone[c]
    /\ msgs < MaxMsgs
    /\ msgs' = msgs + 1
    /\ IF response.t = ""
       THEN /\ wire' = WireAfterSend(wire, {c}, UnsupportedJoinType(join_type))
            /\ enc' = EncAfterSend(enc, {c}, UnsupportedJoinType(join_type))
       ELSE IF other # 0
       THEN /\ wire' = WireAfterSend(wire, {other}, response)
            /\ enc' = EncAfterSend(enc, {other}, response)
       ELSE UNCHANGED <<wire, enc>>
    /\ lastGrant' = [n |-> lastGrant.n + 1, from |-> c,
                     connection_id |-> connection_id, join_type |-> join_type]
    /\ UNCHANGED <<pc, conn, connections, remembered_friend_requests,
                   received_friend_requests, wrShut, peerGone, err, loc,
                   everAdded, outcome, lastSend, owed, config, external_proxy>>

\* add_with_circle_limit(remembered[self], to_user, 5)
FriendRequestRemember(c) ==
    LET me == conn[c].user_uuid
        r == add_with_circle_limit(entry_or_default(remembered_friend_requests, me),
                                   loc[c].to, RememberedLimit)
    IN
    /\ pc[c] = "fr_remember"
    /\ remembered_friend_requests' = Put(remembered_friend_requests, me, r.set)
    /\ loc' = [loc EXCEPT ![c].removed = r.removed]
    /\ pc' = [pc EXCEPT ![c] = IF r.removed # NoUuid THEN "fr_unreceive" ELSE "fr_receive"]
    /\ UNCHANGED <<conn, connections, received_friend_requests, wire, enc, wrShut,
                   peerGone, err, msgs, everAdded, outcome, lastSend, owed>>

\* remove_double_key(received, removed_remembered, self)
FriendRequestUnreceive(c) ==
    /\ pc[c] = "fr_unreceive"
    /\ received_friend_requests' =
           remove_double_key(received_friend_requests, loc[c].removed, conn[c].user_uuid)
    /\ loc' = [loc EXCEPT ![c].removed = NoUuid]
    /\ pc' = [pc EXCEPT ![c] = "fr_receive"]
    /\ owed' = owed \ {<<conn[c].user_uuid, loc[c].removed>>}
    /\ UNCHANGED <<conn, connections, remembered_friend_requests, wire, enc, wrShut,
                   peerGone, err, msgs, everAdded, outcome, lastSend>>

\* add_with_circle_limit(received[to_user], self, 10)
FriendRequestReceive(c) ==
    LET me == conn[c].user_uuid
        r == add_with_circle_limit(entry_or_default(received_friend_requests, loc[c].to),
                                   me, ReceivedLimit)
    IN
    /\ pc[c] = "fr_receive"
    /\ received_friend_requests' = Put(received_friend_requests, loc[c].to, r.set)
    /\ IF r.removed # NoUuid
       THEN /\ loc' = [loc EXCEPT ![c].removed = r.removed]
            /\ pc' = [pc EXCEPT ![c] = "fr_unremember"]
       ELSE /\ loc' = [loc EXCEPT ![c] = NoLoc]
            /\ pc' = [pc EXCEPT ![c] = "live"]
    /\ owed' = IF by_user_id(connections, loc[c].to) = <<>>
               THEN owed \cup {<<me, loc[c].to>>} ELSE owed
    /\ UNCHANGED <<conn, connections, remembered_friend_requests, wire, enc, wrShut,
                   peerGone, err, msgs, everAdded, outcome, lastSend>>

\* remove_double_key(remembered, removed_received, to_user)
FriendRequestUnremember(c) ==
    /\ pc[c] = "fr_unremember"
    /\ remembered_friend_requests' =
           remove_double_key(remembered_friend_requests, loc[c].removed, loc[c].to)
    /\ loc' = [loc EXCEPT ![c] = NoLoc]
    /\ pc' = [pc EXCEPT ![c] = "live"]
    /\ owed' = owed \ {<<loc[c].removed, loc[c].to>>}
    /\ UNCHANGED <<conn, connections, received_friend_requests, wire, enc, wrShut,
                   peerGone, err, msgs, everAdded, outcome, lastSend>>

(***************************************************************************)
(* The close path of the session task: close_error with the error, if any, *)
(* then removal from the registry.                                         *)
(***************************************************************************)
ClosePath(c) ==
    /\ pc[c] = "closing"
    /\ IF err[c] # ""
       THEN /\ wire' = WireAfterClose(wire, c, err[c])
            /\ enc' = EncAdvance(enc, c, HasCipher(c))
            /\ wrShut' = [wrShut EXCEPT ![c] = TRUE]
       ELSE UNCHANGED <<wire, enc, wrShut>>
    /\ connections' = remove(connections, c)
    /\ pc' = [pc EXCEPT ![c] = "done"]
    /\ UNCHANGED <<conn, remembered_friend_requests, received_friend_requests,
                   peerGone, err, loc, msgs, everAdded, outcome, lastSend, owed>>

(***************************************************************************)
(* The rate limiter: a call of RateLimiter::ratelimit, the gate of         *)
(* run_main_server in front of handle_connection, and the pump.            *)
(***************************************************************************)
\* the seconds since the entry of the key was last written
Elapsed(i, key) ==
    IF key \in DOMAIN entries[i] THEN now - entries[i][key].time ELSE 0

\* the calls for the key since the bucket was last left alone for a window
CallsAfter(i, key) ==
    IF key \notin DOMAIN calls[i]
       \/ now - calls[i][key].last >= RateLimitBuckets[i].expiry
    THEN [first |-> now, last |-> now, n |-> 1]
    ELSE [calls[i][key] EXCEPT !.last = now, !.n = @ + 1]

\* the limiter is asked about the key and answers limited
Limit(key, limited) ==
    /\ verdict.n < MaxCalls
    /\ limited = ratelimit(1, entries, key, now, NotLimited).limited
    /\ entries' = ratelimit(1, entries, key, now, NotLimited).entries
    /\ calls' = [i \in DOMAIN calls |-> Put(calls[i], key, CallsAfter(i, key))]
    /\ verdict' = [n |-> verdict.n + 1, key |-> key, overall |-> limited,
                   elapsed |-> [i \in DOMAIN RateLimitBuckets |-> Elapsed(i, key)],
                   limited |-> [i \in DOMAIN RateLimitBuckets |->
                                  bucket_ratelimit(RateLimitBuckets[i], entries[i],
                                                   key, now).limited]]

\* the calls for the key up to now, as far as they are remembered
RunLength(key) ==
    IF key \in DOMAIN calls[1] THEN calls[1][key].n ELSE 0

\* a connect from the address that is not followed any further
RateLimitCall(key) ==
    /\ key = 1 \/ RunLength(key) < MaxOtherCalls
    /\ \E limited \in {ratelimit(1, entries, key, now, NotLimited).limited} :
          Limit(key, limited)
    /\ UNCHANGED <<pc, conn, connections, remembered_friend_requests,
                   received_friend_requests, wire, enc, wrShut, peerGone, err,
                   loc, msgs, everAdded, outcome, lastSend, owed>>

RateLimitedFrame(limited) ==
    Frame("Error", "Ratelimit exceeded! Exceeded the bucket " \o limited.bucket, 1,
          limited.remaining)

\* the session task up to handle_connection
RateLimitGate(c, addr) ==
    /\ pc[c] = "accepted"
    /\ \A earlier \in 1..(c - 1) : pc[earlier] # "accepted"
    /\ \E limited \in {ratelimit(1, entries, addr, now, NotLimited).limited} :
          /\ Limit(addr, limited)
          /\ IF limited # NotLimited
             THEN /\ wire' = [wire EXCEPT ![c] = <<RateLimitedFrame(limited)>>]
                  /\ wrShut' = [wrShut EXCEPT ![c] = TRUE]
                  /\ pc' = [pc EXCEPT ![c] = "done"]
                  /\ UNCHANGED conn
             ELSE /\ conn' = [conn EXCEPT ![c].addr = addr]
                  /\ pc' = [pc EXCEPT ![c] = "idle"]
                  /\ UNCHANGED <<wire, wrShut>>
    /\ UNCHANGED <<connections, remembered_friend_requests,
                   received_friend_requests, enc, peerGone, err,
                   loc, msgs, everAdded, outcome, lastSend, owed>>

\* RateLimiter::pump_limits
PumpLimits ==
    /\ entries' = [i \in DOMAIN entries |-> pump_limits(RateLimitBuckets[i], entries[i], now)]
    /\ entries' # entries
    /\ UNCHANGED <<calls, verdict>>
    /\ UNCHANGED <<pc, conn, connections, remembered_friend_requests,
                   received_friend_requests, wire, enc, wrShut, peerGone, err,
                   loc, msgs, everAdded, outcome, lastSend, owed>>

\* a client that was let in completes the handshake and stays connected
JoinAdmitted(c) ==
    /\ pc[c] = "idle"
    /\ Establish(c, conn[c].addr, CURRENT, 1, c, TRUE, TRUE, 1, ForeignOfflineUuid, "no")

(***************************************************************************)
(* Port lookups: handle_message (BeginPortLookup), the datagram task of    *)
(* run_signalling_server and cleanup_expired_punch_requests.               *)
(***************************************************************************)
PORT_LOOKUP_EXPIRY == 10
SignalSize == 16

LookupIds == 1..NLookups
Ports == {51820}

Endpoint(host, port) == host * 65536 + port

PortLookupSuccessFrame(lookup_id, host, port) ==
    Frame("PortLookupSuccess", "", lookup_id, Endpoint(host, port))
CancelPortLookupFrame(lookup_id) == Frame("CancelPortLookup", "", lookup_id, 0)

ActivePortLookup(lookup_id, source_client) ==
    [lookup_id |-> lookup_id, source_client |-> source_client]

\* the clock
Elapse(seconds, until) ==
    /\ now + seconds <= until
    /\ now' = now + seconds
    /\ UNCHANGED <<pc, conn, connections, remembered_friend_requests,
                   received_friend_requests, wire, enc, wrShut, peerGone, err,
                   loc, msgs, everAdded, outcome, lastSend, owed>>

\* handle_message, BeginPortLookup { lookup_id }; a connection begins a
\* lookup id once
BeginPortLookup(c, lookup_id) ==
    LET request == ActivePortLookup(lookup_id, conn[c].id)
    IN
    /\ pc[c] = "live"
    /\ ~peerGone[c]
    /\ <<c, lookup_id>> \notin begun
    /\ port_lookups' = Put(port_lookups, lookup_id, request)
    /\ port_lookup_by_expiry' =
          Append(port_lookup_by_expiry,
                 [expiry |-> now + PORT_LOOKUP_EXPIRY, request |-> request])
    /\ begun' = begun \cup {<<c, lookup_id>>}
    /\ UNCHANGED <<pc, conn, connections, remembered_friend_requests,
                   received_friend_requests, wire, enc, wrShut, peerGone, err,
                   loc, msgs, everAdded, outcome, lastSend, owed>>

\* the sessions a message for the connection id is sent to
Holder(id) == IF by_id(connections, id) = 0 THEN {} ELSE {by_id(connections, id)}

\* a datagram of len bytes from host:port whose first bytes are lookup_id
\* (a shorter one has no lookup id)
Datagram(len, lookup_id, host, port) ==
    LET read == Smaller(len, SignalSize)
        found == read >= SignalSize /\ lookup_id \in DOMAIN port_lookups
        response == PortLookupSuccessFrame(lookup_id, host, port)
    IN
    /\ begun # {}
    /\ IF found
       THEN /\ port_lookups' = Del(port_lookups, lookup_id)
            /\ wire' = WireAfterSend(wire, Holder(port_lookups[lookup_id].source_client),
                                     response)
            /\ enc' = EncAfterSend(enc, Holder(port_lookups[lookup_id].source_client),
                                   response)
       ELSE UNCHANGED <<port_lookups, wire, enc>>
    /\ UNCHANGED <<port_lookup_by_expiry, begun>>
    /\ UNCHANGED <<pc, conn, connections, remembered_friend_requests,
                   received_friend_requests, wrShut, peerGone, err,
                   loc, msgs, everAdded, outcome, lastSend, owed>>

\* the loop of cleanup_expired_punch_requests over the head of the queue
RECURSIVE Expired(_, _)
Expired(time, s) ==
    IF s.lookups_by_expiry = <<>> \/ ~(time > Head(s.lookups_by_expiry).expiry)
    THEN s
    ELSE LET request == Head(s.lookups_by_expiry).request
             cancel == CancelPortLookupFrame(request.lookup_id)
             after ==
                IF request.lookup_id \notin DOMAIN s.lookups
                THEN [s EXCEPT !.lookups_by_expiry = Tail(@)]
                ELSE [lookups_by_expiry |-> Tail(s.lookups_by_expiry),
                      lookups |-> Del(s.lookups, request.lookup_id),
                      wire |-> WireAfterSend(s.wire, Holder(request.source_client), cancel),
                      enc |-> EncAfterSend(s.enc, Holder(request.source_client), cancel)]
         IN  CHOOSE r \in {Expired(time, x) : x \in {after}} : TRUE

\* a tick of the interval
cleanup_expired_punch_requests ==
    LET after == Expired(now, [lookups_by_expiry |-> port_lookup_by_expiry,
                               lookups |-> port_lookups, wire |-> wire, enc |-> enc])
    IN
    /\ port_lookup_by_expiry # <<>>
    /\ port_lookup_by_expiry' = after.lookups_by_expiry
    /\ port_lookups' = after.lookups
    /\ wire' = after.wire
    /\ enc' = after.enc
    /\ UNCHANGED begun
    /\ UNCHANGED <<pc, conn, connections, remembered_friend_requests,
                   received_friend_requests, wrShut, peerGone, err,
                   loc, msgs, everAdded, outcome, lastSend, owed>>

(***************************************************************************)
(* The server: sessions of clients that send no message.                   *)
(***************************************************************************)
Next ==
    \/ \E c \in DOMAIN pc, protocol_version \in WireVersions \cup {EOF} :
          ReadVersion(c, protocol_version) /\ UNCHANGED subsystems
    \/ \E c \in DOMAIN pc : Handshake(c) /\ UNCHANGED subsystems
    \/ \E c \in DOMAIN pc : TryAdd(c) /\ UNCHANGED subsystems
    \/ \E c \in DOMAIN pc : Collide(c) /\ UNCHANGED subsystems
    \/ \E c \in DOMAIN pc, elapsed \in BOOLEAN : Retry(c, elapsed) /\ UNCHANGED subsystems
    \/ \E c \in DOMAIN pc : DequeueTake(c) /\ UNCHANGED subsystems
    \/ \E c \in DOMAIN pc : RecvFail(c) /\ UNCHANGED subsystems
    \/ \E c \in DOMAIN pc : ClosePath(c) /\ UNCHANGED subsystems
    \/ \E c \in DOMAIN pc : PeerDisconnect(c) /\ UNCHANGED subsystems

Spec == Init /\ [][Next]_vars

(***************************************************************************)
(* The handshake and the registration of the sessions of supported         *)
(* clients.                                                                *)
(***************************************************************************)
NextHandshake ==
    \/ \E c \in DOMAIN pc : HandshakeApart(c) /\ UNCHANGED subsystems
    \/ \E c \in DOMAIN pc : TryAdd(c) /\ UNCHANGED subsystems
    \/ \E c \in DOMAIN pc : DequeueTake(c) /\ UNCHANGED subsystems
    \/ \E c \in DOMAIN pc : RecvFail(c) /\ UNCHANGED subsystems
    \/ \E c \in DOMAIN pc : ClosePath(c) /\ UNCHANGED subsystems
    \/ \E c \in DOMAIN pc : PeerDisconnect(c) /\ UNCHANGED subsystems

SpecHandshake == Init /\ [][NextHandshake]_vars

(***************************************************************************)
(* Sessions of clients that complete the handshake: the registration loop  *)
(* and the close path, with two sessions and with three.                   *)
(***************************************************************************)
NextRegister ==
    \/ \E c \in DOMAIN pc : Join(c) /\ UNCHANGED subsystems
    \/ \E c \in DOMAIN pc : TryAdd(c) /\ UNCHANGED subsystems
    \/ \E c \in DOMAIN pc : Collide(c) /\ UNCHANGED subsystems
    \/ \E c \in DOMAIN pc, elapsed \in BOOLEAN : Retry(c, elapsed) /\ UNCHANGED subsystems
    \/ \E c \in DOMAIN pc : DequeueTake(c) /\ UNCHANGED subsystems
    \/ \E c \in DOMAIN pc : RecvFail(c) /\ UNCHANGED subsystems
    \/ \E c \in DOMAIN pc : ClosePath(c) /\ UNCHANGED subsystems
    \/ \E c \in DOMAIN pc : PeerDisconnect(c) /\ UNCHANGED subsystems

SpecRegister == Init /\ [][NextRegister]_vars

SpecTrio == InitTrio /\ [][NextRegister]_vars

(***************************************************************************)
(* Sessions of clients that complete the handshake and send FriendRequest  *)
(* messages, with two sessions and with three.                             *)
(***************************************************************************)
NextFriends ==
    \/ \E c \in DOMAIN pc : JoinApart(c) /\ UNCHANGED subsystems
    \/ \E c \in DOMAIN pc : TryAdd(c) /\ UNCHANGED subsystems
    \/ \E c \in DOMAIN pc : DequeueTake(c) /\ UNCHANGED subsystems
    \/ \E c \in DOMAIN pc : DequeueStep(c) /\ UNCHANGED subsystems
    \/ \E c \in DOMAIN pc : RecvFail(c) /\ UNCHANGED subsystems
    \/ \E c \in DOMAIN pc, to_user \in Users : HandleFriendRequest(c, to_user) /\ UNCHANGED subsystems
    \/ \E c \in DOMAIN pc : FriendRequestRemember(c) /\ UNCHANGED subsystems
    \/ \E c \in DOMAIN pc : FriendRequestReceive(c) /\ UNCHANGED subsystems
    \/ \E c \in DOMAIN pc : ClosePath(c) /\ UNCHANGED subsystems
    \/ \E c \in DOMAIN pc : PeerDisconnect(c) /\ UNCHANGED subsystems

SpecFriends == Init /\ [][NextFriends]_vars

SpecFriendsTrio == InitTrio /\ [][NextFriends]_vars

(***************************************************************************)
(* The FriendRequest handler with legacy and current clients that stay     *)
(* connected.                                                              *)
(***************************************************************************)
NextHandler ==
    \/ \E c \in DOMAIN pc : JoinInTurn(c) /\ UNCHANGED subsystems
    \/ \E c \in DOMAIN pc : TryAdd(c) /\ UNCHANGED subsystems
    \/ \E c \in DOMAIN pc : DequeueTake(c) /\ UNCHANGED subsystems
    \/ \E c \in DOMAIN pc : DequeueStep(c) /\ UNCHANGED subsystems
    \/ \E c \in DOMAIN pc, to_user \in Users : HandleFriendRequest(c, to_user) /\ UNCHANGED subsystems
    \/ \E c \in DOMAIN pc : FriendRequestRemember(c) /\ UNCHANGED subsystems
    \/ \E c \in DOMAIN pc : FriendRequestReceive(c) /\ UNCHANGED subsystems

SpecHandler == Init /\ [][NextHandler]_vars

(***************************************************************************)
(* ConnectionInfo::send_message called on its own, on the connection of a  *)
(* client of any named protocol version.                                   *)
(***************************************************************************)
JoinNamed(c) ==
    /\ pc[c] = "idle"
    /\ \E protocol_version \in NamedVersions :
          Establish(c, 1, protocol_version, 1, c, TRUE, TRUE, 1, ForeignOfflineUuid, "no")

SendMessage(c, t) ==
    LET message == Frame(t, "", 0, 0)
    IN
    /\ pc[c] \notin {"idle", "done"}
    /\ lastSend.n < MaxSends
    /\ wire' = WireAfterSend(wire, {c}, message)
    /\ enc' = EncAfterSend(enc, {c}, message)
    /\ lastSend' = [n |-> lastSend.n + 1, to |-> c, t |-> t,
                    ok |-> send_message_ok(c, message)]
    /\ UNCHANGED <<pc, conn, connections, remembered_friend_requests,
                   received_friend_requests, wrShut, peerGone, err, loc, msgs,
                   everAdded, outcome, owed>>

InitSend == InitOf(1..NSendConn)

NextSend ==
    \/ \E c \in DOMAIN pc : JoinNamed(c) /\ UNCHANGED subsystems
    \/ \E c \in DOMAIN pc : PeerDisconnect(c) /\ UNCHANGED subsystems
    \/ \E c \in DOMAIN pc, t \in S2CTypes : SendMessage(c, t) /\ UNCHANGED subsystems

SpecSend == InitSend /\ [][NextSend]_vars

(***************************************************************************)
(* The receive loop of one session of a legacy or current client, read by  *)
(* read.                                                                   *)
(***************************************************************************)
Reader == 1

InitRecv == InitOf({Reader})

NextRecv ==
    \/ JoinLegacyOrCurrent(Reader) /\ UNCHANGED subsystems
    \/ TryAdd(Reader) /\ UNCHANGED subsystems
    \/ DequeueTake(Reader) /\ UNCHANGED subsystems
    \/ \E size \in FrameSizes : \E sent \in Sent(size), id \in FrameIds(size) :
          RecvSize(Reader, size, sent, id) /\ UNCHANGED besides_reading
    \/ \E n \in SkipReads : RecvSkip(Reader, n) /\ UNCHANGED besides_reading
    \/ \E to_user \in Users : RecvData(Reader, to_user) /\ UNCHANGED besides_reading
    \/ FriendRequestRemember(Reader) /\ UNCHANGED subsystems
    \/ FriendRequestReceive(Reader) /\ UNCHANGED subsystems
    \/ RecvFail(Reader) /\ UNCHANGED subsystems
    \/ ClosePath(Reader) /\ UNCHANGED subsystems
    \/ PeerDisconnect(Reader) /\ UNCHANGED subsystems

SpecRecv == InitRecv /\ [][NextRecv]_vars

\* the session task is scheduled: a read of the loop that skips an oversize
\* frame returns, with what the stream holds
SpecRecvFair ==
    InitRecv /\ [][NextRecv]_vars
        /\ WF_vars(\E n \in SkipReads : RecvSkip(Reader, n) /\ UNCHANGED besides_reading)

(***************************************************************************)
(* The signalling server with the sessions of clients that begin port      *)
(* lookups.                                                                *)
(***************************************************************************)
NextLookup ==
    \/ \E c \in DOMAIN pc : JoinApart(c) /\ UNCHANGED subsystems
    \/ \E c \in DOMAIN pc : TryAdd(c) /\ UNCHANGED subsystems
    \/ \E c \in DOMAIN pc : DequeueTake(c) /\ UNCHANGED subsystems
    \/ \E c \in DOMAIN pc, lookup_id \in LookupIds :
          BeginPortLookup(c, lookup_id) /\ UNCHANGED besides_signalling
    \/ \E len \in {SignalSize - 1, SignalSize, SignalSize + 1}, lookup_id \in LookupIds,
          host \in Addrs, port \in Ports :
          Datagram(len, lookup_id, host, port) /\ UNCHANGED besides_signalling
    \/ cleanup_expired_punch_requests /\ UNCHANGED besides_signalling
    \/ begun # {} /\ Elapse(1, MaxTime) /\ UNCHANGED besides_clock

SpecLookup == Init /\ [][NextLookup]_vars

(***************************************************************************)
(* The proxy server: handle_proxy_connection and handle_inner, and the     *)
(* messages ProxyS2CPacket and ProxyDisconnect of the hosting client.      *)
(***************************************************************************)
RECURSIVE write_var_int(_)
write_var_int(value) ==
    IF value < 128 THEN <<value>>
    ELSE <<(value % 128) + 128>> \o write_var_int(value \div 128)

\* the handshake packets of the game clients, without the length prefix:
\* packet id, protocol version and, last, the next state (the address is
\* the dest_cid of the handshake, the port is left out)
HandshakePackets == {<<0, 5, 1>>, <<0, 5, 2>>, <<0, 5, 3>>}

\* next_state of the handshake: get_var_int()? as u8
next_state_of(handshake_data) == handshake_data[Len(handshake_data)] % 256

\* what a game client sends after the handshake, and what a host answers
Chunks == {<<7>>}
Payloads == {<<9>>}

ProxyConnectFrame(connection_id, remote_addr) ==
    Frame("ProxyConnect", "", connection_id, remote_addr)
ProxyC2SPacketFrame(connection_id, data) ==
    Frame("ProxyC2SPacket", data, connection_id, 0)
ProxyDisconnectFrame(connection_id) ==
    Frame("ProxyDisconnect", "", connection_id, 0)

\* connection.send_message(message) of the relay: the sockets after it
ProxySend(c, message) ==
    /\ wire' = WireAfterSend(wire, {c}, message)
    /\ enc' = EncAfterSend(enc, {c}, message)

\* the pieces of the texts of disconnect, one number for each
TextOpen == 201          \* {"text":"
TextClose == 202         \* ","color":"red"}
DescriptionOpen == 203   \* {"description":
DescriptionClose == 204  \* }
CouldntFind == 205       \* Couldn't find server with ID
InvalidId == 206         \* Invalid connection ID: ..., or Please use the syntax ...

\* format!("Couldn't find server with ID {dest_cid}")
CouldntFindMessage(dest_cid) == <<CouldntFind, dest_cid>>

\* write_mc_string: the length, then the text
write_mc_string(value) == write_var_int(Len(value)) \o value

\* the packets disconnect writes, each with its length before it
disconnect_packets(next_state, message) ==
    LET json_message == <<TextOpen>> \o message \o <<TextClose>>
        packet_data ==
            <<0>> \o (IF next_state = 1
                      THEN write_mc_string(<<DescriptionOpen>> \o json_message
                                               \o <<DescriptionClose>>)
                      ELSE IF next_state = 2
                      THEN write_mc_string(json_message)
                      ELSE <<>>)
        pong == <<1, 0, 0, 0, 0, 0, 0, 0, 0>>
    IN  <<write_var_int(Len(packet_data)) \o packet_data>>
            \o (IF next_state = 1 THEN <<write_var_int(Len(pong)) \o pong>> ELSE <<>>)

\* disconnect: the packets, then shutdown
disconnect(p, next_state, message) ==
    ingress' = [ingress EXCEPT ![p] =
                   [written |-> @.written \o disconnect_packets(next_state, message),
                    shut |-> TRUE]]

\* what the relay leaves alone
ProxyFrame ==
    UNCHANGED <<pc, conn, connections, remembered_friend_requests,
                received_friend_requests, wrShut, peerGone, err, loc, msgs,
                everAdded, outcome, lastSend, owed, lastProxy>>

\* handshake: the packet is read and the connection id parsed out of the
\* address; parsed = FALSE is an address that holds no connection id
ProxyHandshake(p, parsed, dest_cid, remote_addr, handshake_data) ==
    /\ px[p].at = "accepted"
    /\ \A earlier \in ProxyIds :
          earlier < p => px[earlier].at \in {"relaying", "sending", "resolving", "closing", "done"}
    /\ IF parsed
       THEN /\ px' = [px EXCEPT ![p] = [@ EXCEPT !.at = "resolve", !.dest = dest_cid,
                                          !.remote_addr = remote_addr,
                                          !.handshake_data = handshake_data]]
            /\ UNCHANGED ingress
       ELSE /\ px' = [px EXCEPT ![p].at = "closing"]
            /\ disconnect(p, next_state_of(handshake_data), <<InvalidId>>)
    /\ UNCHANGED <<wire, enc, proxy_connections>>
    /\ ProxyFrame

\* connections.by_id(dest_cid)
ProxyResolve(p) ==
    /\ px[p].at = "resolve"
    /\ IF by_id(connections, px[p].dest) = 0
       THEN /\ px' = [px EXCEPT ![p].at = "closing"]
            /\ disconnect(p, next_state_of(px[p].handshake_data),
                          CouldntFindMessage(px[p].dest))
       ELSE /\ px' = [px EXCEPT ![p] = [@ EXCEPT !.at = "found",
                                          !.connection = by_id(connections, px[p].dest)]]
            /\ UNCHANGED ingress
    /\ UNCHANGED <<wire, enc, proxy_connections>>
    /\ ProxyFrame

\* proxy_connections.insert(connection_id, (dest_cid, write))
ProxyRegister(p) ==
    /\ px[p].at = "found"
    /\ proxy_connections' = Put(proxy_connections, p, px[p].dest)
    /\ px' = [px EXCEPT ![p].at = "registered"]
    /\ UNCHANGED <<wire, enc, ingress>>
    /\ ProxyFrame

\* send_message(ProxyConnect)?
ProxyConnect(p) ==
    LET message == ProxyConnectFrame(p, px[p].remote_addr)
    IN
    /\ px[p].at = "registered"
    /\ ProxySend(px[p].connection, message)
    /\ px' = [px EXCEPT ![p].at = IF send_message_ok(px[p].connection, message)
                                  THEN "connected" ELSE "closing"]
    /\ UNCHANGED <<proxy_connections, ingress>>
    /\ ProxyFrame

\* send_message(ProxyC2SPacket) of the handshake with its length before it
ProxyForwardHandshake(p) ==
    LET data == write_var_int(Len(px[p].handshake_data)) \o px[p].handshake_data
        message == ProxyC2SPacketFrame(p, data)
    IN
    /\ px[p].at = "connected"
    /\ ProxySend(px[p].connection, message)
    /\ px' = [px EXCEPT ![p] =
                 IF send_message_ok(px[p].connection, message)
                 THEN [@ EXCEPT !.at = "relaying", !.relayed = Append(@, data)]
                 ELSE [@ EXCEPT !.at = "closing"]]
    /\ UNCHANGED <<proxy_connections, ingress>>
    /\ ProxyFrame

\* read.read(&mut buffer)?: an empty chunk is the end of the stream or an
\* error
ProxyRead(p, chunk) ==
    /\ px[p].at = "relaying"
    /\ chunk # <<>> => px[p].reads < MaxChunks
    /\ px' = [px EXCEPT ![p] = IF chunk = <<>> THEN [@ EXCEPT !.at = "closing"]
                               ELSE [@ EXCEPT !.at = "sending", !.chunk = chunk,
                                              !.reads = @ + 1,
                                              !.stream = Append(@, chunk),
                                              !.send_start = now]]
    /\ UNCHANGED <<wire, enc, proxy_connections, ingress>>
    /\ ProxyFrame

\* send_message(ProxyC2SPacket) of a chunk
ProxyForward(p) ==
    LET message == ProxyC2SPacketFrame(p, px[p].chunk)
    IN
    /\ px[p].at = "sending"
    /\ ProxySend(px[p].connection, message)
    /\ px' = [px EXCEPT ![p] =
                 IF send_message_ok(px[p].connection, message)
                 THEN [@ EXCEPT !.at = "relaying", !.relayed = Append(@, px[p].chunk)]
                 ELSE [@ EXCEPT !.at = "resolving"]]
    /\ UNCHANGED <<proxy_connections, ingress>>
    /\ ProxyFrame

\* a retry loop that goes on with the next read once the destination is
\* found
RetryResumes_read == "relaying"

\* break false of the inner loop: the outer loop sends the chunk again
RetryResumes == "sending"

\* connections.by_id(dest_cid) of the retry loop
ProxyResolved(p) == by_id(connections, px[p].dest)

\* the inner loop after a sleep, for at most `most` rounds that find the
\* destination: the destination is found, or the five seconds are over, or
\* the loop goes round
ProxyRetryWithin(p, timed_out, most) ==
    /\ px[p].at = "resolving"
    /\ IF ProxyResolved(p) # 0
       THEN /\ px[p].retries < most
            /\ px' = [px EXCEPT ![p] = [@ EXCEPT !.at = RetryResumes,
                                           !.connection = ProxyResolved(p),
                                           !.retries = @ + 1]]
       ELSE IF timed_out
       THEN px' = [px EXCEPT ![p].at = "closing"]
       ELSE UNCHANGED px
    /\ UNCHANGED <<wire, enc, proxy_connections, ingress>>
    /\ ProxyFrame

\* the retry loop where the time does not matter: a round that changes
\* something
ProxyRetry(p, timed_out) ==
    /\ ProxyResolved(p) = 0 => timed_out
    /\ ProxyRetryWithin(p, timed_out, MaxRetries)

\* sleep(Duration::from_millis(50)) and send_start.elapsed() >
\* Duration::from_secs(5), in milliseconds
RETRY_SLEEP == 50
RETRY_LIMIT == 5000

\* the time up to which the retry loop is followed
MaxRetryTime == RETRY_LIMIT + 3 * RETRY_SLEEP

\* the retry loop with its sleep, on the clock
ProxyRetrySlept(p) ==
    /\ now + RETRY_SLEEP <= MaxRetryTime
    /\ now' = now + RETRY_SLEEP
    /\ ProxyRetryWithin(p, now' - px[p].send_start > RETRY_LIMIT,
                        MaxRetryTime \div RETRY_SLEEP)

\* a relay that leaves its entry in the table
ClosedTable_kept(p) == proxy_connections

\* proxy_connections.remove(&connection_id)
ClosedTable(p) == Del(proxy_connections, p)

\* handle_proxy_connection after handle_inner
ProxyClose(p) ==
    /\ px[p].at = "closing"
    /\ proxy_connections' = ClosedTable(p)
    /\ IF px[p].connection # 0
       THEN ProxySend(px[p].connection, ProxyDisconnectFrame(p))
       ELSE UNCHANGED <<wire, enc>>
    /\ px' = [px EXCEPT ![p].at = "done"]
    /\ UNCHANGED ingress
    /\ ProxyFrame

\* a handler that does not compare the destination with the sender
ProxyOwned_any(c, connection_id) == connection_id \in DOMAIN proxy_connections

\* proxy_connections.get(&connection_id) and *cid == connection.id
ProxyOwned(c, connection_id) ==
    /\ connection_id \in DOMAIN proxy_connections
    /\ proxy_connections[connection_id] = conn[c].id

\* what the handlers of the hosting client leave alone
ProxyHandlerFrame ==
    UNCHANGED <<pc, conn, connections, remembered_friend_requests,
                received_friend_requests, wire, enc, wrShut, peerGone, err, loc,
                msgs, everAdded, outcome, lastSend, owed, proxy_connections>>

\* handle_message (ProxyS2CPacket): write_all and flush, errors ignored
HandleProxyS2CPacket(c, connection_id, data) ==
    /\ pc[c] = "live"
    /\ lastProxy.n < MaxProxyMsgs
    /\ lastProxy' = [n |-> lastProxy.n + 1, from |-> c, p |-> connection_id,
                     t |-> "ProxyS2CPacket"]
    /\ IF ProxyOwned(c, connection_id) /\ ~ingress[connection_id].shut
       THEN ingress' = [ingress EXCEPT ![connection_id].written = Append(@, data)]
       ELSE UNCHANGED ingress
    /\ IF ProxyOwned(c, connection_id)
       THEN px' = [px EXCEPT ![connection_id].answered = Append(@, data)]
       ELSE UNCHANGED px
    /\ ProxyHandlerFrame

\* handle_message (ProxyDisconnect): shutdown, errors ignored
HandleProxyDisconnect(c, connection_id) ==
    /\ pc[c] = "live"
    /\ lastProxy.n < MaxProxyMsgs
    /\ lastProxy' = [n |-> lastProxy.n + 1, from |-> c, p |-> connection_id,
                     t |-> "ProxyDisconnect"]
    /\ IF ProxyOwned(c, connection_id)
       THEN ingress' = [ingress EXCEPT ![connection_id].shut = TRUE]
       ELSE UNCHANGED ingress
    /\ UNCHANGED px
    /\ ProxyHandlerFrame

\* a hosting client from address 1 that takes the connection id 1 or one of
\* its own
\* a hosting client from address 1 that takes the connection id 1, once the
\* clients before it are past the registration
JoinHostAgain(c) ==
    /\ \A earlier \in 1..(c - 1) : pc[earlier] \notin {"register", "collide"}
    /\ Establish(c, 1, CURRENT, 1, 1, TRUE, TRUE, 1, ForeignOfflineUuid, "no")

JoinHost(c) ==
    /\ pc[c] = "idle"
    /\ \E connection_id \in {1, c} :
          Establish(c, 1, CURRENT, 1, connection_id, TRUE, TRUE, 1,
                    ForeignOfflineUuid, "no")

\* a hosting client with a connection id of its own
JoinHostApart(c) ==
    /\ pc[c] = "idle"
    /\ Establish(c, 1, CURRENT, 1, c, TRUE, TRUE, 1, ForeignOfflineUuid, "no")

(***************************************************************************)
(* The rate limiter on its own, called for connects from a few addresses.  *)
(***************************************************************************)
NextLimiter ==
    \/ \E key \in Addrs : RateLimitCall(key) /\ UNCHANGED besides_limiting
    \/ PumpLimits /\ UNCHANGED besides_limiting
    \/ Elapse(LimitStep, MaxLimitTime) /\ UNCHANGED besides_clock

SpecLimiter == Init /\ [][NextLimiter]_vars

\* the limiter with one address that connects at most once every LimitStep
\* seconds
MaxSpacedTime == RateLimitBuckets[1].max_count * LimitStep

NextSpaced ==
    \/ /\ 1 \in DOMAIN calls[1] => calls[1][1].last < now
       /\ RateLimitCall(1) /\ UNCHANGED besides_limiting
    \/ PumpLimits /\ UNCHANGED besides_limiting
    \/ Elapse(LimitStep, MaxSpacedTime) /\ UNCHANGED besides_clock

SpecSpaced == Init /\ [][NextSpaced]_vars

(***************************************************************************)
(* The sessions behind the gate of the rate limiter, on a server that has  *)
(* seen connects from address 1 before.                                    *)
(***************************************************************************)
\* the counts of per_minute and per_hour for address 1 (0 is no entry)
Prefills == {<<0, 0>>, <<19, 19>>, <<20, 20>>, <<1, 399>>, <<1, 400>>, <<20, 400>>}

Prefilled(count) ==
    IF count = 0 THEN EmptyMap ELSE Put(EmptyMap, 1, [time |-> 0, count |-> count])

InitGate ==
    /\ SessionsInit(Conns, "accepted")
    /\ ProxyingInit
    /\ GrantingInit(NoBaseAddr)
    /\ codec = NoCodec
    /\ locking = NoLocking /\ geo = NoGeo
    /\ rx = NoRead
    /\ now = 0
    /\ port_lookups = EmptyMap
    /\ port_lookup_by_expiry = <<>>
    /\ begun = {}
    /\ \E counts \in Prefills :
          /\ entries = [i \in DOMAIN RateLimitBuckets |-> Prefilled(counts[i])]
          /\ calls = [i \in DOMAIN RateLimitBuckets |->
                        IF counts[i] = 0 THEN EmptyMap
                        ELSE Put(EmptyMap, 1, [first |-> 0, last |-> 0, n |-> counts[i]])]
    /\ verdict = NoVerdict

NextGate ==
    \/ \E c \in DOMAIN pc, addr \in Addrs : RateLimitGate(c, addr) /\ UNCHANGED besides_limiting
    \/ \E c \in DOMAIN pc : JoinAdmitted(c) /\ UNCHANGED subsystems
    \/ \E c \in DOMAIN pc : TryAdd(c) /\ UNCHANGED subsystems
    \/ \E c \in DOMAIN pc : DequeueTake(c) /\ UNCHANGED subsystems
    \/ \E c \in DOMAIN pc : RecvFail(c) /\ UNCHANGED subsystems
    \/ \E c \in DOMAIN pc : ClosePath(c) /\ UNCHANGED subsystems
    \/ PumpLimits /\ UNCHANGED besides_limiting
    \/ Elapse(LimitStep, MaxLimitTime) /\ UNCHANGED besides_clock

SpecGate == InitGate /\ [][NextGate]_vars

(***************************************************************************)
(* The proxy server next to the hosting clients.                           *)
(***************************************************************************)
NextProxy ==
    \/ \E c \in DOMAIN pc : JoinHost(c) /\ UNCHANGED subsystems
    \/ \E c \in DOMAIN pc : TryAdd(c) /\ UNCHANGED subsystems
    \/ \E c \in DOMAIN pc : Collide(c) /\ UNCHANGED subsystems
    \/ \E c \in DOMAIN pc : DequeueTake(c) /\ UNCHANGED subsystems
    \/ \E c \in DOMAIN pc : PeerDisconnect(c) /\ UNCHANGED subsystems
    \/ \E c \in DOMAIN pc : RecvFail(c) /\ UNCHANGED subsystems
    \/ \E c \in DOMAIN pc : ClosePath(c) /\ UNCHANGED subsystems
    \/ \E p \in ProxyIds, parsed \in BOOLEAN, handshake_data \in HandshakePackets :
          ProxyHandshake(p, parsed, 1, 2, handshake_data) /\ UNCHANGED besides_proxying
    \/ \E p \in ProxyIds : ProxyResolve(p) /\ UNCHANGED besides_proxying
    \/ \E p \in ProxyIds : ProxyRegister(p) /\ UNCHANGED besides_proxying
    \/ \E p \in ProxyIds : ProxyConnect(p) /\ UNCHANGED besides_proxying
    \/ \E p \in ProxyIds : ProxyForwardHandshake(p) /\ UNCHANGED besides_proxying
    \/ \E p \in ProxyIds, chunk \in Chunks \cup {<<>>} :
          ProxyRead(p, chunk) /\ UNCHANGED besides_proxying
    \/ \E p \in ProxyIds : ProxyForward(p) /\ UNCHANGED besides_proxying
    \/ \E p \in ProxyIds, timed_out \in BOOLEAN :
          ProxyRetry(p, timed_out) /\ UNCHANGED besides_proxying
    \/ \E p \in ProxyIds : ProxyClose(p) /\ UNCHANGED besides_proxying

SpecProxy == Init /\ [][NextProxy]_vars

(***************************************************************************)
(* The hosting clients that answer the proxy connections, each with a      *)
(* connection id of its own; no hosting client leaves.                     *)
(***************************************************************************)
NextProxyHost ==
    \/ \E c \in DOMAIN pc : JoinHostApart(c) /\ UNCHANGED subsystems
    \/ \E c \in DOMAIN pc : TryAdd(c) /\ UNCHANGED subsystems
    \/ \E c \in DOMAIN pc : DequeueTake(c) /\ UNCHANGED subsystems
    \/ \E p \in ProxyIds, parsed \in BOOLEAN :
          ProxyHandshake(p, parsed, 1, 2, <<0, 5, 2>>) /\ UNCHANGED besides_proxying
    \/ \E p \in ProxyIds : ProxyResolve(p) /\ UNCHANGED besides_proxying
    \/ \E p \in ProxyIds : ProxyRegister(p) /\ UNCHANGED besides_proxying
    \/ \E p \in ProxyIds : ProxyConnect(p) /\ UNCHANGED besides_proxying
    \/ \E p \in ProxyIds : ProxyForwardHandshake(p) /\ UNCHANGED besides_proxying
    \/ \E p \in ProxyIds : ProxyRead(p, <<>>) /\ UNCHANGED besides_proxying
    \/ \E p \in ProxyIds : ProxyClose(p) /\ UNCHANGED besides_proxying
    \/ \E c \in DOMAIN pc, connection_id \in 0..NProxy, data \in Payloads :
          HandleProxyS2CPacket(c, connection_id, data) /\ UNCHANGED besides_proxying
    \/ \E c \in DOMAIN pc, connection_id \in 0..NProxy :
          HandleProxyDisconnect(c, connection_id) /\ UNCHANGED besides_proxying

SpecProxyHost == Init /\ [][NextProxyHost]_vars

\* the relay of one ingress stream to one hosting client, on the clock of
\* the retry loop (milliseconds)
NextRetry ==
    \/ JoinHostApart(1) /\ UNCHANGED subsystems
    \/ TryAdd(1) /\ UNCHANGED subsystems
    \/ DequeueTake(1) /\ UNCHANGED subsystems
    \/ PeerDisconnect(1) /\ UNCHANGED subsystems
    \/ RecvFail(1) /\ UNCHANGED subsystems
    \/ ClosePath(1) /\ UNCHANGED subsystems
    \/ ProxyHandshake(0, TRUE, 1, 2, <<0, 5, 2>>) /\ UNCHANGED besides_proxying
    \/ ProxyResolve(0) /\ UNCHANGED besides_proxying
    \/ ProxyRegister(0) /\ UNCHANGED besides_proxying
    \/ ProxyConnect(0) /\ UNCHANGED besides_proxying
    \/ ProxyForwardHandshake(0) /\ UNCHANGED besides_proxying
    \/ \E chunk \in {<<7 + px[0].reads>>, <<>>} :
          ProxyRead(0, chunk) /\ UNCHANGED besides_proxying
    \/ ProxyForward(0) /\ UNCHANGED besides_proxying
    \/ ProxyRetrySlept(0) /\ UNCHANGED besides_proxying_clock
    \/ ProxyClose(0) /\ UNCHANGED besides_proxying

SpecRetry == Init /\ [][NextRetry]_vars

(***************************************************************************)
(* The relay between the game clients, which connect one after the other,  *)
(* and the hosting clients that hold the connection id 1 in turn.          *)
(***************************************************************************)
NextRelay ==
    \/ \E c \in DOMAIN pc : JoinHostAgain(c) /\ UNCHANGED subsystems
    \/ \E c \in DOMAIN pc : TryAdd(c) /\ UNCHANGED subsystems
    \/ \E c \in DOMAIN pc : Collide(c) /\ UNCHANGED subsystems
    \/ \E c \in DOMAIN pc : DequeueTake(c) /\ UNCHANGED subsystems
    \/ \E p \in ProxyIds, parsed \in {TRUE} :
          /\ \A earlier \in ProxyIds : earlier < p => px[earlier].at = "done"
          /\ ProxyHandshake(p, parsed, 1, 2, <<0, 5, 2>>) /\ UNCHANGED besides_proxying
    \/ \E p \in ProxyIds : ProxyResolve(p) /\ UNCHANGED besides_proxying
    \/ \E p \in ProxyIds : ProxyRegister(p) /\ UNCHANGED besides_proxying
    \/ \E p \in ProxyIds : ProxyConnect(p) /\ UNCHANGED besides_proxying
    \/ \E p \in ProxyIds : ProxyForwardHandshake(p) /\ UNCHANGED besides_proxying
    \/ \E p \in ProxyIds : \E chunk \in {<<7 + px[p].reads>>, <<>>} :
          ProxyRead(p, chunk) /\ UNCHANGED besides_proxying
    \/ \E p \in ProxyIds : ProxyForward(p) /\ UNCHANGED besides_proxying
    \/ \E p \in ProxyIds, timed_out \in BOOLEAN :
          ProxyRetry(p, timed_out) /\ UNCHANGED besides_proxying
    \/ \E p \in ProxyIds : ProxyClose(p) /\ UNCHANGED besides_proxying
    \/ \E c \in DOMAIN pc, p \in DOMAIN proxy_connections :
          \E data \in {<<9 + Len(px[p].answered)>>} :
              /\ ProxyOwned(c, p)
              /\ HandleProxyS2CPacket(c, p, data) /\ UNCHANGED besides_proxying

SpecRelay == Init /\ [][NextRelay]_vars

\* the relay of one ingress stream whose hosting client may go away
NextRelayEnd ==
    \/ \E c \in DOMAIN pc : JoinHostAgain(c) /\ UNCHANGED subsystems
    \/ \E c \in DOMAIN pc : TryAdd(c) /\ UNCHANGED subsystems
    \/ \E c \in DOMAIN pc : Collide(c) /\ UNCHANGED subsystems
    \/ \E c \in DOMAIN pc : DequeueTake(c) /\ UNCHANGED subsystems
    \/ \E c \in DOMAIN pc :
          /\ \E p \in ProxyIds : px[p].connection = c /\ px[p].at = "relaying"
          /\ RecvFail(c) /\ UNCHANGED subsystems
    \/ \E c \in DOMAIN pc : ClosePath(c) /\ UNCHANGED subsystems
    \/ \E p \in ProxyIds, parsed \in BOOLEAN :
          /\ \A earlier \in ProxyIds : earlier < p => px[earlier].at = "done"
          /\ ProxyHandshake(p, parsed, 1, 2, <<0, 5, 2>>) /\ UNCHANGED besides_proxying
    \/ \E p \in ProxyIds : ProxyResolve(p) /\ UNCHANGED besides_proxying
    \/ \E p \in ProxyIds : ProxyRegister(p) /\ UNCHANGED besides_proxying
    \/ \E p \in ProxyIds : ProxyConnect(p) /\ UNCHANGED besides_proxying
    \/ \E p \in ProxyIds : ProxyForwardHandshake(p) /\ UNCHANGED besides_proxying
    \/ \E p \in ProxyIds : \E chunk \in {<<7 + px[p].reads>>, <<>>} :
          ProxyRead(p, chunk) /\ UNCHANGED besides_proxying
    \/ \E p \in ProxyIds : ProxyForward(p) /\ UNCHANGED besides_proxying
    \/ \E p \in ProxyIds, timed_out \in BOOLEAN :
          ProxyRetry(p, timed_out) /\ UNCHANGED besides_proxying
    \/ \E p \in ProxyIds : ProxyClose(p) /\ UNCHANGED besides_proxying

SpecRelayEnd == Init /\ [][NextRelayEnd]_vars

(***************************************************************************)
(* Clients of the current protocol, each with a connection id of its own:  *)
(* user 1 with one connection and user 2 with the others.  User 1 sends    *)
(* ListOnline while connections of user 2 go away.                         *)
(***************************************************************************)
JoinCurrent(c) ==
    /\ pc[c] = "idle"
    /\ \A earlier \in 1..(c - 1) : pc[earlier] \notin {"idle", "register"}
    /\ Joins(c, {IF c = 1 THEN 1 ELSE 2}, CURRENT, 1, c)

\* the lists of friends of a ListOnline message
FriendLists == {<<2>>, <<1, 2>>, <<2, 2>>}

NextBroadcast ==
    \/ \E c \in DOMAIN pc : JoinCurrent(c) /\ UNCHANGED subsystems
    \/ \E c \in DOMAIN pc : TryAdd(c) /\ UNCHANGED subsystems
    \/ \E c \in DOMAIN pc : DequeueTake(c) /\ UNCHANGED subsystems
    \/ \E c \in DOMAIN pc : c # 1 /\ PeerDisconnect(c) /\ UNCHANGED subsystems
    \/ \E c \in DOMAIN pc : peerGone[c] /\ RecvFail(c) /\ UNCHANGED subsystems
    \/ \E c \in DOMAIN pc : ClosePath(c) /\ UNCHANGED subsystems
    \/ \E friends \in FriendLists : HandleListOnline(1, friends) /\ UNCHANGED subsystems

SpecBroadcast == InitTrio /\ [][NextBroadcast]_vars

(***************************************************************************)
(* A server with or without base address.  The first client is of protocol *)
(* 2 or of the current protocol, may have an external proxy, and sends     *)
(* JoinGranted; the others are of the current protocol and may go away.    *)
(***************************************************************************)
InitGrant ==
    /\ SessionsInit(Conns, "idle")
    /\ ServicesInit
    /\ \E server_config \in Configs : GrantingInit(server_config)
    /\ codec = NoCodec
    /\ locking = NoLocking /\ geo = NoGeo

JoinOldOrCurrent(c) ==
    /\ pc[c] = "idle"
    /\ \A earlier \in 1..(c - 1) : pc[earlier] \notin {"idle", "register"}
    /\ \E protocol_version \in (IF c = 1 THEN {2, CURRENT} ELSE {CURRENT}) :
          Joins(c, {1}, protocol_version, c, c)

\* the connection ids and the join types of the JoinGranted messages
GrantIds == 1..(NConn + 1)
JoinTypes == {UPnP(7000), Proxy, Punch}

NextGrant ==
    \/ \E c \in DOMAIN pc : JoinOldOrCurrent(c) /\ UNCHANGED subsystems
    \/ \E proxy \in ExternalServers :
          ChooseExternalProxy(1, proxy) /\ UNCHANGED besides_granting
    \/ \E c \in DOMAIN pc : TryAdd(c) /\ UNCHANGED subsystems
    \/ \E c \in DOMAIN pc : DequeueTake(c) /\ UNCHANGED subsystems
    \/ \E c \in DOMAIN pc : c # 1 /\ PeerDisconnect(c) /\ UNCHANGED subsystems
    \/ \E connection_id \in GrantIds, join_type \in JoinTypes :
          HandleJoinGranted(1, connection_id, join_type) /\ UNCHANGED besides_granting

SpecGrant == InitGrant /\ [][NextGrant]_vars

(***************************************************************************)
(* Three connections of one user, each with a connection id of its own,    *)
(* that register and end in any order.                                     *)
(***************************************************************************)
JoinSameUser(c) ==
    /\ pc[c] = "idle"
    /\ Joins(c, {1}, CURRENT, 1, c)

NextBucket ==
    \/ \E c \in DOMAIN pc : JoinSameUser(c) /\ UNCHANGED subsystems
    \/ \E c \in DOMAIN pc : TryAdd(c) /\ UNCHANGED subsystems
    \/ \E c \in DOMAIN pc : DequeueTake(c) /\ UNCHANGED subsystems
    \/ \E c \in DOMAIN pc : RecvFail(c) /\ UNCHANGED subsystems
    \/ \E c \in DOMAIN pc : ClosePath(c) /\ UNCHANGED subsystems

SpecBucket == InitTrio /\ [][NextBucket]_vars

(***************************************************************************)
(* The connection ids and their texts: an id is rendered as three words or *)
(* written as nine digits of base 36 by a client, the text is typed in     *)
(* some letter case and parsed; or the id is read from the wire.           *)
(***************************************************************************)
\* value \div m and value % m
RECURSIVE div_rem(_, _)
div_rem(limbs, m) ==
    IF limbs = <<>> THEN [q |-> <<>>, r |-> 0]
    ELSE LET upper == div_rem(Tail(limbs), m)
             v == upper.r * 2^WORD_SHIFT + Head(limbs)
         IN  [q |-> <<v \div m>> \o upper.q, r |-> v % m]

\* the n digits of base 36 of a value, the most significant first
RECURSIVE to_base36(_, _)
to_base36(id, n) ==
    IF n = 0 THEN <<>>
    ELSE LET d == div_rem(id, 36) IN to_base36(d.q, n - 1) \o <<d.r>>

\* a < b
RECURSIVE LessThan(_, _)
LessThan(a, b) ==
    /\ a # <<>>
    /\ \/ a[Len(a)] < b[Len(b)]
       \/ /\ a[Len(a)] = b[Len(b)]
          /\ LessThan(SubSeq(a, 1, Len(a) - 1), SubSeq(b, 1, Len(b) - 1))

\* 36^9 and 2^42
Pow36_9 == from_str_radix(<<1, 0, 0, 0, 0, 0, 0, 0, 0, 0>>, Limbs(0, 0, 0, 0, 0))
Pow2_42 == Limbs(0, 0, 0, 1, 0)

SampleIds ==
    {Limbs(a, b, c, d, 0) : a \in {0, 1, WORD_MASK}, b \in {0, 1, WORD_MASK},
                            c \in {0, 1, WORD_MASK}, d \in {0, 1, 22, 23}}
        \cup {Limbs(WORD_MASK, WORD_MASK, WORD_MASK, WORD_MASK, 255)}

\* texts that are neither three words of the dictionary nor nine digits
OddTexts ==
    { <<UnknownToken(3)>>,
      <<UnknownToken(9)>>,
      <<ShortToken(<<35, 35, 35, 35, 35, 35, 35, 35>>, "lower")>>,
      <<WordToken(0, "lower"), WordToken(0, "lower")>>,
      <<WordToken(0, "lower"), UnknownToken(5), WordToken(0, "lower")>>,
      <<WordToken(0, "lower"), WordToken(0, "lower"), WordToken(0, "lower"),
        WordToken(0, "lower")>> }

InitCodec ==
    /\ SessionsInit(Conns, "idle")
    /\ ServicesInit
    /\ GrantingInit(NoBaseAddr)
    /\ \E id \in SampleIds : codec = [NoCodec EXCEPT !.at = "given", !.id = id]
    /\ locking = NoLocking /\ geo = NoGeo

CodecOnly ==
    UNCHANGED <<pc, conn, connections, remembered_friend_requests,
                received_friend_requests, wire, enc, wrShut, peerGone, err,
                loc, msgs, everAdded, outcome, lastSend, owed>>

\* the id is rendered
Render ==
    /\ codec.at = "given"
    /\ codec' = [codec EXCEPT !.at = "text", !.form = "words", !.text = Display(codec.id)]
    /\ CodecOnly

\* the id is written as nine digits of base 36
Shorten ==
    /\ codec.at = "given"
    /\ LessThan(codec.id, Pow36_9)
    /\ codec' = [codec EXCEPT !.at = "text", !.form = "short",
                              !.text = <<ShortToken(to_base36(codec.id, 9), "lower")>>]
    /\ CodecOnly

\* some other text is typed
TypeOdd(text) ==
    /\ codec.at = "given"
    /\ codec.id = Limbs(0, 0, 0, 0, 0)
    /\ codec' = [codec EXCEPT !.at = "text", !.form = "odd", !.text = text]
    /\ CodecOnly

\* the text is typed in another letter case
Recase(case) ==
    /\ codec.at = "text"
    /\ \E i \in DOMAIN codec.text : codec.text[i].case # case
    /\ codec' = [codec EXCEPT !.text = [i \in DOMAIN codec.text |->
                                           [codec.text[i] EXCEPT !.case = case]]]
    /\ CodecOnly

\* the text is parsed
Parse ==
    /\ codec.at = "text"
    /\ codec' = [codec EXCEPT !.at = "parsed", !.result = from_str(codec.text)]
    /\ CodecOnly

\* read_connection_id: the id is the u64 of a handshake or of a message
ReadConnectionId ==
    /\ codec.at = "given"
    /\ codec' = [codec EXCEPT !.at = "parsed", !.form = "wire", !.result = new(codec.id)]
    /\ CodecOnly

NextCodec ==
    \/ Render /\ UNCHANGED besides_codec
    \/ Shorten /\ UNCHANGED besides_codec
    \/ \E text \in OddTexts : TypeOdd(text) /\ UNCHANGED besides_codec
    \/ \E case \in Cases : Recase(case) /\ UNCHANGED besides_codec
    \/ Parse /\ UNCHANGED besides_codec
    \/ ReadConnectionId /\ UNCHANGED besides_codec

SpecCodec == InitCodec /\ [][NextCodec]_vars

(***************************************************************************)
(* The client of user 1 sends FriendRequest { to_user: 2 } and then        *)
(* ListOnline { friends: [2] }, while the client of user 2 connects.       *)
(***************************************************************************)
NextOrder ==
    \/ \E c \in DOMAIN pc : JoinCurrent(c) /\ UNCHANGED subsystems
    \/ \E c \in DOMAIN pc : TryAdd(c) /\ UNCHANGED subsystems
    \/ \E c \in DOMAIN pc : DequeueTake(c) /\ UNCHANGED subsystems
    \/ \E c \in DOMAIN pc : DequeueStep(c) /\ UNCHANGED subsystems
    \/ msgs = 0 /\ HandleFriendRequest(1, 2) /\ UNCHANGED subsystems
    \/ \E c \in DOMAIN pc : FriendRequestRemember(c) /\ UNCHANGED subsystems
    \/ \E c \in DOMAIN pc : FriendRequestReceive(c) /\ UNCHANGED subsystems
    \/ msgs > 0 /\ HandleListOnline(1, <<2>>) /\ UNCHANGED subsystems
    \/ \E c \in DOMAIN pc : c # 1 /\ PeerDisconnect(c) /\ UNCHANGED subsystems
    \/ \E c \in DOMAIN pc : RecvFail(c) /\ UNCHANGED subsystems
    \/ \E c \in DOMAIN pc : ClosePath(c) /\ UNCHANGED subsystems

SpecOrder == Init /\ [][NextOrder]_vars

(***************************************************************************)
(* The tasks of the server and the locks they take.                        *)
(***************************************************************************)
NextLocks ==
    \/ \E t \in LockTasks : \E steps \in TaskSteps(t) :
          Begin(t, steps) /\ LockingOnly /\ UNCHANGED besides_locking
    \/ \E t \in LockTasks : Step(t) /\ LockingOnly /\ UNCHANGED besides_locking

SpecLocks == Init /\ [][NextLocks]_vars

(***************************************************************************)
(* The files of the ranges are loaded, and then addresses are looked up.   *)
(***************************************************************************)
NextGeo ==
    \/ \E record \in GeoRecords : LoadRecord(record) /\ GeoOnly /\ UNCHANGED besides_geo
    \/ Loaded /\ GeoOnly /\ UNCHANGED besides_geo
    \/ \E addr \in GeoAddrs : Lookup(addr) /\ GeoOnly /\ UNCHANGED besides_geo

SpecGeo == Init /\ [][NextGeo]_vars

(***************************************************************************)
(* A server whose users have sent friend requests to users without         *)
(* connection: user 1 to the first targets, further users to the first     *)
(* target, one request after the other.  Three of the senders then request *)
(* three of the targets, concurrently.                                     *)
(***************************************************************************)
Senders == 1..NSenders
Target(i) == NSenders + i

\* the whole offline branch of the FriendRequest handler, from a to b
Requested(stores, a, b) ==
    LET r1 == add_with_circle_limit(entry_or_default(stores.remembered, a), b,
                                    RememberedLimit)
        remembered1 == Put(stores.remembered, a, r1.set)
        received1 == IF r1.removed # NoUuid
                     THEN remove_double_key(stores.received, r1.removed, a)
                     ELSE stores.received
        r2 == add_with_circle_limit(entry_or_default(received1, b), a, ReceivedLimit)
        received2 == Put(received1, b, r2.set)
        remembered2 == IF r2.removed # NoUuid
                       THEN remove_double_key(remembered1, r2.removed, b)
                       ELSE remembered1
    IN  [remembered |-> remembered2, received |-> received2]

RECURSIVE AfterRequests(_, _)
AfterRequests(stores, script) ==
    IF script = <<>> THEN stores
    ELSE CHOOSE after \in
            {AfterRequests(next, Tail(script)) :
                next \in {Requested(stores, Head(script)[1], Head(script)[2])}} : TRUE

Script(k, m) ==
    [i \in 1..k |-> <<1, Target(i)>>] \o [j \in 1..m |-> <<j + 1, Target(1)>>]

RECURSIVE Registered(_)
Registered(n) ==
    IF n = 0 THEN NewConnectionSet
    ELSE CHOOSE set \in {add(earlier, n) : earlier \in {Registered(n - 1)}} : TRUE

InitStores ==
    /\ pc = [c \in Senders |-> "live"]
    /\ conn = [c \in Senders |->
                 [id |-> c, addr |-> 1, user_uuid |-> c, protocol_version |-> CURRENT]]
    /\ connections = Registered(NSenders)
    /\ \E k \in 0..RememberedLimit, m \in 0..(ReceivedLimit - 1) :
          LET stores == AfterRequests([remembered |-> EmptyMap, received |-> EmptyMap],
                                      Script(k, m))
          IN  /\ remembered_friend_requests = stores.remembered
              /\ received_friend_requests = stores.received
              /\ owed = {<<Script(k, m)[i][1], Script(k, m)[i][2]>> :
                           i \in 1..Len(Script(k, m))}
    /\ wire = [c \in Senders |-> GreetingFrames(CURRENT, c, c)]
    /\ enc = [c \in Senders |-> Len(GreetingFrames(CURRENT, c, c))]
    /\ wrShut = [c \in Senders |-> FALSE]
    /\ peerGone = [c \in Senders |-> FALSE]
    /\ err = [c \in Senders |-> ""]
    /\ loc = [c \in Senders |-> NoLoc]
    /\ msgs = 0
    /\ everAdded = [c \in Senders |-> TRUE]
    /\ outcome = [c \in Senders |-> Ended("ok")]
    /\ lastSend = NoSend
    /\ SubsystemsInit

FreeSenders == {1, 2, NSenders}
FreeTargets == {Target(1), Target(2), Target(NTargets)}

NextStores ==
    \/ \E c \in FreeSenders, to_user \in FreeTargets : HandleFriendRequest(c, to_user) /\ UNCHANGED subsystems
    \/ \E c \in FreeSenders : FriendRequestRemember(c) /\ UNCHANGED subsystems
    \/ \E c \in FreeSenders : FriendRequestUnreceive(c) /\ UNCHANGED subsystems
    \/ \E c \in FreeSenders : FriendRequestReceive(c) /\ UNCHANGED subsystems
    \/ \E c \in FreeSenders : FriendRequestUnremember(c) /\ UNCHANGED subsystems

SpecStores == InitStores /\ [][NextStores]_vars

(***************************************************************************)
(* Properties of the connection registry.                                  *)
(***************************************************************************)
Buckets == connections.connections_by_user_id

Listed(c) == \E u \in DOMAIN Buckets : c \in Range(Buckets[u])

\* C1: at every quiescent point every connection listed in a user-id bucket
\* is the connection by_id returns for its id, and every connection by_id
\* returns is listed in the bucket of its own user-id.
RegistryConsistent ==
    /\ \A u \in DOMAIN Buckets : \A c \in Range(Buckets[u]) :
          by_id(connections, conn[c].id) = c
    /\ \A id \in DOMAIN connections.connections :
          LET c == connections.connections[id]
          IN  c \in Range(by_user_id(connections, conn[c].user_uuid))

\* C2: once the session of a registered connection has ended, the
\* connection is found neither through by_id nor through by_user_id, and no
\* bucket is left empty.
EndedSessionsAreGone ==
    /\ \A c \in DOMAIN pc :
          pc[c] = "done" /\ everAdded[c] =>
              /\ by_id(connections, conn[c].id) # c
              /\ c \notin Range(by_user_id(connections, conn[c].user_uuid))
    /\ \A u \in DOMAIN Buckets : Buckets[u] # <<>>

(***************************************************************************)
(* Properties of the registration loop.                                    *)
(***************************************************************************)
Incumbent(c) == by_id(connections, conn[c].id)

SameIpIncumbent(c) == Incumbent(c) # 0 /\ conn[Incumbent(c)].addr = conn[c].addr

\* the critical Error reaches a socket that can still be written, and the
\* write half is shut down afterwards
ClosedWith(c, message) ==
    /\ wrShut'[c]
    /\ wire'[c] = IF Writable(c) THEN Append(wire[c], ErrorFrame(message, TRUE))
                  ELSE wire[c]

\* C3: a newcomer whose id is held by an incumbent of the same IP closes the
\* incumbent with the critical Error "Connection ID taken by same IP" and
\* then is what by_id returns for the id; otherwise it retries, and on the
\* deadline it is closed with the critical Error "That connection ID is
\* taken." and is never registered.
IdCollisionResolved ==
    [][\A c \in DOMAIN pc :
        /\ pc[c] = "collide" /\ pc'[c] # "collide" /\ SameIpIncumbent(c) =>
              /\ pc'[c] = "dequeue"
              /\ ClosedWith(Incumbent(c), "Connection ID taken by same IP")
              /\ by_id(connections', conn[c].id) = c
        /\ pc[c] = "collide" /\ pc'[c] # "collide" /\ ~SameIpIncumbent(c) =>
              /\ pc'[c] = "retry"
              /\ UNCHANGED <<connections, wire, wrShut, everAdded>>
        /\ pc[c] = "retry" /\ pc'[c] # "retry" =>
              \/ pc'[c] = "register" /\ UNCHANGED <<connections, wire, wrShut, everAdded>>
              \/ /\ pc'[c] = "closing"
                 /\ ClosedWith(c, "That connection ID is taken.")
                 /\ ~everAdded'[c]
        /\ pc[c] \in {"closing", "done"} /\ ~everAdded[c] =>
              /\ ~everAdded'[c]
              /\ by_id(connections', conn[c].id) # c
              /\ ~Listed(c)'
      ]_vars

\* a newcomer has taken the id over from an incumbent of its IP
TakenOverBySameIp ==
    \E c \in DOMAIN pc, i \in DOMAIN pc :
        /\ c # i
        /\ conn[c].id = conn[i].id
        /\ by_id(connections, conn[c].id) = c
        /\ wire[i] # <<>>
        /\ wire[i][Len(wire[i])] = ErrorFrame("Connection ID taken by same IP", TRUE)
        /\ wrShut[i]

\* C26: add_force of a connection whose id is held by an incumbent leaves
\* by_id of the id returning the newcomer, the newcomer listed in the bucket
\* of its user, and the incumbent listed in the bucket of no user.
AddForceReplacesIncumbent ==
    [][\A c \in DOMAIN pc :
        pc[c] = "collide" /\ pc'[c] = "dequeue" /\ Incumbent(c) # 0 =>
            /\ by_id(connections', conn[c].id) = c
            /\ c \in Range(by_user_id(connections', conn[c].user_uuid))
            /\ ~\E u \in DOMAIN connections'.connections_by_user_id :
                  Incumbent(c) \in Range(connections'.connections_by_user_id[u])
      ]_vars

\* C31: the close path of a session takes only the connection of that
\* session out of the registry: every other connection that by_id returns
\* for its id, or that the bucket of its user lists, is still returned and
\* listed after the step.
ClosePathRemovesOwnOnly ==
    [][\A c, d \in DOMAIN pc :
        pc[c] = "closing" /\ pc'[c] = "done" /\ d # c =>
            /\ by_id(connections, conn[d].id) = d
                   => by_id(connections', conn[d].id) = d
            /\ d \in Range(by_user_id(connections, conn[d].user_uuid))
                   => d \in Range(by_user_id(connections', conn[d].user_uuid))
      ]_vars

\* the place of the connection x in the bucket, 0 if it is not in it
PlaceIn(bucket, x) ==
    IF \E i \in DOMAIN bucket : bucket[i] = x
    THEN CHOOSE i \in DOMAIN bucket : bucket[i] = x
    ELSE 0

\* C27: the bucket of every user lists its connections in the order they
\* were added: no step of add, add_force or remove changes the order of two
\* connections that stay in the bucket, and a connection that comes into
\* the bucket comes after those that stay, so that the last of the bucket
\* is the connection added last.
BucketsKeepInsertionOrder ==
    [][\A u \in Users :
        LET before == by_user_id(connections, u)
            after == by_user_id(connections', u)
        IN  \A x, y \in Range(after) :
                /\ x \in Range(before) /\ y \in Range(before)
                       /\ PlaceIn(before, x) < PlaceIn(before, y)
                   => PlaceIn(after, x) < PlaceIn(after, y)
                /\ x \in Range(before) /\ y \notin Range(before)
                   => PlaceIn(after, x) < PlaceIn(after, y)
      ]_vars

(***************************************************************************)
(* Properties of the handshake.                                            *)
(***************************************************************************)
FailedHandshake(c) ==
    /\ conn[c].protocol_version >= NEW_AUTH_PROTOCOL
    /\ ~outcome[c].challenge_ok \/ outcome[c].fatal

\* C10: a modern handshake with a wrong challenge answer or a fatal profile
\* mismatch ends in a critical Error frame and a closed socket; the
\* connection is never registered and no other client is sent anything.
FailedHandshakeIsClosed ==
    /\ [](\A c \in DOMAIN pc : FailedHandshake(c) =>
            /\ pc[c] = "done"
            /\ wrShut[c]
            /\ wire[c] = IF peerGone[c] THEN <<>>
                         ELSE <<ErrorFrame(outcome[c].message, TRUE)>>
            /\ outcome[c].message \in
                  {"Challenge failed", "Mismatched UUID.", "Failed to verify username.",
                   "Reserved special UUID not allowed."}
            /\ ~everAdded[c]
            /\ ~Listed(c)
            /\ \A id \in DOMAIN connections.connections : connections.connections[id] # c)
    /\ [][\A c \in DOMAIN pc : ~FailedHandshake(c) /\ FailedHandshake(c)' =>
            \A other \in DOMAIN pc \ {c} : wire'[other] = wire[other]]_vars

\* one client failed the challenge, another the profile verification
HandshakesFailed ==
    \E c \in DOMAIN pc, d \in DOMAIN pc :
        /\ FailedHandshake(c) /\ ~outcome[c].challenge_ok
        /\ wire[c] = <<ErrorFrame("Challenge failed", TRUE)>>
        /\ FailedHandshake(d) /\ outcome[d].fatal
        /\ wire[d] = <<ErrorFrame("Mismatched UUID.", TRUE)>>

\* verify_profile was called in the handshake of session c
Verified(c) == outcome[c].verify.requested_uuid # NoUuid

\* the handshake of session c ended in a fatal mismatch: the critical Error
\* with the message of the mismatch, and no connection
Fatal(c, message) ==
    /\ outcome[c].fatal
    /\ outcome[c].message = message
    /\ pc[c] = "done"
    /\ ~everAdded[c]

\* the handshake of session c went on to the greeting, after a Warning if
\* there was a mismatch
Allowed(c, warning) ==
    /\ ~outcome[c].fatal
    /\ outcome[c].message = warning
    /\ conn[c].user_uuid = outcome[c].verify.requested_uuid \/ peerGone[c]

\* C11: verify_profile of a version 4 uuid is fatal for Some(u) exactly if u
\* differs from the requested uuid, is fatal for None, and allows on a
\* transport failure; of any other uuid it is fatal for nil and max, and a
\* uuid that differs from the offline uuid of the name is a Warning after
\* which the client that stays connected goes on to the registration.
ProfileVerifiedAsStated ==
    /\ [](\A c \in DOMAIN pc : Verified(c) =>
            LET requested == outcome[c].verify.requested_uuid
                has_joined == outcome[c].verify.has_joined
                offline == outcome[c].verify.offline_uuid
            IN  IF get_version_num(requested) = 4
                THEN /\ has_joined \in Uuids =>
                          IF has_joined # requested
                          THEN Fatal(c, "Mismatched UUID.") ELSE Allowed(c, "ok")
                     /\ has_joined = ProfileNone => Fatal(c, "Failed to verify username.")
                     /\ has_joined = ProfileErr => Allowed(c, "ok")
                ELSE IF requested \in {NilUuid, MaxUuid}
                THEN Fatal(c, "Reserved special UUID not allowed.")
                ELSE IF requested # offline
                THEN Allowed(c, "Mismatched offline UUID.")
                ELSE Allowed(c, "ok"))
    /\ [][\A c \in DOMAIN pc :
            /\ ~Verified(c) /\ Verified(c)'
            /\ ~outcome'[c].fatal /\ ~peerGone'[c]
            => /\ pc'[c] = "register"
               /\ ~wrShut'[c]
               /\ (wire'[c][1] = WarningFrame("Mismatched offline UUID."))
                     = (outcome'[c].message # "ok")
               /\ \A i \in 1..Len(wire'[c]) : wire'[c][i].t # "Error"]_vars

\* an offline client with a uuid that is not the one of its name is Live
\* after its Warning
WarnedClientIsLive ==
    \E c \in DOMAIN pc :
        /\ Verified(c)
        /\ outcome[c].message = "Mismatched offline UUID."
        /\ pc[c] = "live"
        /\ by_id(connections, conn[c].id) = c
        /\ wire[c][1] = WarningFrame("Mismatched offline UUID.")

(***************************************************************************)
(* Properties of recv_message.                                             *)
(***************************************************************************)
Oversize == "Messages bigger than 2 MB are not allowed."

\* C12: a frame is refused for its length exactly if the length is 0 or
\* more than 2 MiB; the refusal of an oversize frame of length L is reported
\* when exactly L bytes after the length were consumed, the loop before it
\* never consumes more than L, and a frame of 2 MiB is read and parsed.
RefusedByLength ==
    /\ [](/\ rx.result = "Message is empty" => rx.size = 0 /\ rx.consumed = 0
          /\ rx.result = Oversize =>
                rx.size > 2 * 1024 * 1024 /\ rx.consumed = rx.size /\ rx.remaining = 0
          /\ rx.at = "skip" =>
                /\ rx.size > 2 * 1024 * 1024
                /\ rx.consumed < rx.size
                /\ rx.consumed + rx.remaining = rx.size
          /\ rx.at = "data" => rx.size \in 1..(2 * 1024 * 1024)
          /\ rx.size = 0 /\ rx.reads > 0 => rx.result = "Message is empty"
          /\ rx.size > 2 * 1024 * 1024 => rx.at \in {"skip", "failed"})
    /\ [][/\ rx.at = "data" /\ rx'.at # "data" /\ rx.left >= rx.size =>
                /\ rx'.consumed = rx.size
                /\ rx'.result = parse(rx.id, rx.size - 1, conn[Reader].protocol_version)
          /\ msgs' # msgs => rx.size \in 1..(2 * 1024 * 1024)]_vars

\* C34: recv_message leaves the loop that skips an oversize frame, also
\* when the stream ends before the declared bytes were sent.
OversizeDrainEnds ==
    (pc[Reader] = "live" /\ rx.at = "skip") ~> (pc[Reader] # "live" \/ rx.at # "skip")

\* an oversize frame was refused after reads that returned less than asked
\* for, with a byte of the next frame left in the stream
OversizeDrained ==
    /\ rx.result = Oversize
    /\ rx.size = MaxMessageSize + 1
    /\ rx.consumed = rx.size
    /\ rx.shorts > 0
    /\ rx.left = 1
    /\ msgs > 0

\* C13: a Live connection that sends a frame that is malformed, oversize, of
\* unknown type or too new is closed with a critical Error, and the frame
\* is not dispatched.
BadFrameClosedWithError ==
    \A c \in DOMAIN pc :
        /\ pc[c] = "done"
        /\ c = Reader
        /\ rx.result \in {Oversize, "Message is empty", "unknown typeId",
                          "too new message", "failed to fill whole buffer"}
        /\ ~peerGone[c]
        => /\ wrShut[c]
           /\ wire[c] # <<>>
           /\ wire[c][Len(wire[c])].t = "Error"
           /\ wire[c][Len(wire[c])].a = 1

(***************************************************************************)
(* Properties of the port lookups.                                         *)
(***************************************************************************)
\* the session is Live and what by_id returns for its id
Connected(c) ==
    /\ pc[c] = "live"
    /\ ~peerGone[c]
    /\ by_id(connections, conn[c].id) = c

\* C37: CancelPortLookup for a lookup id is sent only when ten seconds have
\* passed since the last BeginPortLookup of the id: when it is sent, the
\* queue holds no request of the id that has not expired.
CancelOnlyAfterExpiry ==
    [][\A c \in DOMAIN wire, lookup_id \in LookupIds :
        Len(wire'[c]) > Len(wire[c])
            /\ wire'[c][Len(wire'[c])] = CancelPortLookupFrame(lookup_id)
        => \A i \in DOMAIN port_lookup_by_expiry :
              port_lookup_by_expiry[i].request.lookup_id = lookup_id
                  => now >= port_lookup_by_expiry[i].expiry
      ]_vars

\* the PortLookupSuccess and CancelPortLookup messages for the lookup id
\* that were sent to the session
Answers(c, lookup_id) ==
    {i \in 1..Len(wire[c]) :
        /\ wire[c][i].t \in {"PortLookupSuccess", "CancelPortLookup"}
        /\ wire[c][i].a = lookup_id}

\* the lookup of the session is in the map or in the queue
Pending(c, lookup_id) ==
    \/ /\ lookup_id \in DOMAIN port_lookups
       /\ port_lookups[lookup_id].source_client = conn[c].id
    \/ \E i \in 1..Len(port_lookup_by_expiry) :
          port_lookup_by_expiry[i].request = ActivePortLookup(lookup_id, conn[c].id)

\* C14: a connection that began a lookup and stays connected is sent at most
\* one of PortLookupSuccess and CancelPortLookup for it, and exactly one
\* once the lookup was consumed or drained.
LookupAnsweredOnce ==
    \A c \in DOMAIN pc, lookup_id \in LookupIds :
        <<c, lookup_id>> \in begun /\ Connected(c) =>
            /\ Cardinality(Answers(c, lookup_id)) <= 1
            /\ ~Pending(c, lookup_id) => Cardinality(Answers(c, lookup_id)) = 1

\* C15: a PortLookupSuccess is sent only for a lookup whose expiry instant
\* has not passed.
ExpiredLookupNotConsumed ==
    [][\A c \in DOMAIN pc :
        /\ Len(wire'[c]) = Len(wire[c]) + 1
        /\ wire'[c][Len(wire'[c])].t = "PortLookupSuccess"
        => \E i \in 1..Len(port_lookup_by_expiry) :
              /\ port_lookup_by_expiry[i].request.lookup_id = wire'[c][Len(wire'[c])].a
              /\ port_lookup_by_expiry[i].request.source_client = conn[c].id
              /\ ~(now > port_lookup_by_expiry[i].expiry)]_vars

(***************************************************************************)
(* Properties of the rate limiter.                                         *)
(***************************************************************************)
\* the step is a call of the limiter for the key
Asked(key) == verdict'.n # verdict.n /\ verdict'.key = key

\* the bucket has had no call for the key for a window
Quiet(i, key) ==
    key \notin DOMAIN calls[i] \/ now - calls[i][key].last >= RateLimitBuckets[i].expiry

\* C16: of the calls for a key that fall within one window of a bucket,
\* exactly the first max_count are allowed and the rest are denied; a call
\* after a window without calls for the key is allowed and the count of the
\* key restarts at 1.
FirstCallsOfWindowAllowed ==
    [][\A key \in Addrs, i \in DOMAIN RateLimitBuckets :
          Asked(key) =>
              IF Quiet(i, key)
              THEN /\ verdict'.limited[i] = NotLimited
                   /\ entries'[i][key].count = 1
              ELSE now - calls[i][key].first < RateLimitBuckets[i].expiry =>
                      /\ verdict'.limited[i] = NotLimited
                            <=> calls[i][key].n < RateLimitBuckets[i].max_count
                      /\ verdict'.limited[i] = NotLimited
                            => entries'[i][key].count = calls[i][key].n + 1
      ]_vars

\* the 21st connect of one address within a minute has been denied by
\* per_minute, half a minute after the first
TwentyFirstDenied ==
    /\ verdict.key = 1
    /\ calls[1][1].n = 21
    /\ now - calls[1][1].first = LimitStep
    /\ verdict.limited[1].bucket = "per_minute"
    /\ verdict.limited[2] = NotLimited
    /\ entries[1][1].count = 20

\* C38: a bucket denies a call of a key only if the key made max_count
\* allowed calls within the window before the call: a key that calls at
\* most once every LimitStep seconds, so that no window of a bucket holds
\* max_count of its calls, is denied by no bucket.
SpacedCallsNeverDenied ==
    \A i \in DOMAIN verdict.limited :
        RateLimitBuckets[i].max_count * LimitStep > RateLimitBuckets[i].expiry
            => verdict.limited[i] = NotLimited

\* C18: the remaining time a denying bucket reports is its window less the
\* time since the entry of the key was last written.
RemainingIsWindowLessElapsed ==
    \A i \in DOMAIN verdict.limited :
        verdict.limited[i] # NotLimited =>
            verdict.limited[i].remaining = RateLimitBuckets[i].expiry - verdict.elapsed[i]

\* the buckets that deny the call of the step
Denying == {i \in DOMAIN RateLimitBuckets : verdict'.limited[i] # NotLimited}

\* the session was turned away by the limiter
TurnedAway(c) ==
    /\ wire[c] # <<>>
    /\ wire[c][1].t = "Error"
    /\ \E i \in DOMAIN RateLimitBuckets :
          wire[c][1].msg = "Ratelimit exceeded! Exceeded the bucket " \o RateLimitBuckets[i].name

\* C17: a call of the limiter consults every bucket and denies the key if
\* and only if some bucket denies; a connect that is denied is closed with
\* a critical Error that names a denying bucket, before the handshake, and
\* is never registered.
DeniedIffSomeBucketDenies ==
    /\ [][verdict'.n # verdict.n =>
            /\ \A i \in DOMAIN RateLimitBuckets :
                  entries'[i] = bucket_ratelimit(RateLimitBuckets[i], entries[i],
                                                 verdict'.key, now).entries
            /\ verdict'.overall # NotLimited <=> Denying # {}
            /\ verdict'.overall # NotLimited =>
                  \E i \in Denying : verdict'.overall = verdict'.limited[i]
            /\ \A c \in DOMAIN pc :
                  pc[c] = "accepted" /\ pc'[c] # "accepted" =>
                      IF Denying # {}
                      THEN /\ pc'[c] = "done"
                           /\ wrShut'[c]
                           /\ \E i \in Denying :
                                 wire'[c] = <<Frame("Error",
                                     "Ratelimit exceeded! Exceeded the bucket "
                                         \o RateLimitBuckets[i].name,
                                     1, verdict'.limited[i].remaining)>>
                      ELSE pc'[c] = "idle" /\ wire'[c] = <<>> /\ ~wrShut'[c]
        ]_vars
    /\ [](\A c \in DOMAIN pc :
            TurnedAway(c) =>
                /\ pc[c] = "done"
                /\ outcome[c] = NoOutcome
                /\ ~everAdded[c]
                /\ ~Listed(c))

\* a connect was let through by per_minute and turned away by per_hour,
\* while another client from the same address is connected
TurnedAwayByHourOnly ==
    \E c \in DOMAIN pc, d \in DOMAIN pc :
        /\ TurnedAway(c)
        /\ wire[c][1].msg = "Ratelimit exceeded! Exceeded the bucket per_hour"
        /\ verdict.limited[1] = NotLimited
        /\ verdict.limited[2] # NotLimited
        /\ pc[d] = "live"

(***************************************************************************)
(* Properties of the proxy server.                                         *)
(***************************************************************************)
\* the proxy connection is registered for the connection id of c
OwnedBy(c, p) == p \in DOMAIN proxy_connections /\ proxy_connections[p] = conn[c].id

\* C19: a ProxyS2CPacket or ProxyDisconnect of connection c for the proxy
\* connection p writes to the ingress socket of p, or shuts it down, only
\* if p is registered with the connection id of c as its destination; in
\* every other case no ingress socket changes, and the table of proxy
\* connections is never changed by these messages.
ProxyMessagesOnlyFromOwner ==
    [][lastProxy'.n # lastProxy.n =>
          /\ proxy_connections' = proxy_connections
          /\ ~OwnedBy(lastProxy'.from, lastProxy'.p) => ingress' = ingress
          /\ OwnedBy(lastProxy'.from, lastProxy'.p) =>
                /\ \A q \in ProxyIds \ {lastProxy'.p} : ingress'[q] = ingress[q]
                /\ lastProxy'.t = "ProxyDisconnect" =>
                      /\ ingress'[lastProxy'.p].shut
                      /\ ingress'[lastProxy'.p].written = ingress[lastProxy'.p].written
                /\ lastProxy'.t = "ProxyS2CPacket" /\ ~ingress[lastProxy'.p].shut =>
                      \E data \in Payloads :
                          ingress'[lastProxy'.p] =
                              [written |-> Append(ingress[lastProxy'.p].written, data),
                               shut |-> FALSE]
      ]_vars

\* a connected client that is not the destination of a registered proxy
\* connection has sent ProxyDisconnect for it, and the ingress socket is open
ForeignHostIgnored ==
    /\ lastProxy.n > 0
    /\ lastProxy.t = "ProxyDisconnect"
    /\ lastProxy.p \in DOMAIN proxy_connections
    /\ pc[lastProxy.from] = "live"
    /\ ~OwnedBy(lastProxy.from, lastProxy.p)
    /\ px[lastProxy.p].at = "relaying"
    /\ ingress[lastProxy.p] = [written |-> <<>>, shut |-> FALSE]

\* the places of the ProxyC2SPacket frames of p among the frames sent to c
PacketsOf(c, p) ==
    {i \in DOMAIN wire[c] : wire[c][i].t = "ProxyC2SPacket" /\ wire[c][i].a = p}

\* C20: whichever connection is sent a ProxyC2SPacket of the proxy
\* connection p was sent ProxyConnect{p, remote_addr} before, and the first
\* ProxyC2SPacket of p it was sent holds the handshake packet with its
\* length before it.
ProxyConnectComesFirst ==
    \A c \in DOMAIN wire, p \in ProxyIds :
        \A i \in PacketsOf(c, p) :
            (\A j \in PacketsOf(c, p) : i <= j) =>
                /\ \E j \in 1..(i - 1) :
                      /\ wire[c][j].t = "ProxyConnect"
                      /\ wire[c][j].a = p
                      /\ wire[c][j].b = px[p].remote_addr
                /\ wire[c][i].msg = write_var_int(Len(px[p].handshake_data))
                                        \o px[p].handshake_data

\* a is the beginning of b
IsPrefix(a, b) == Len(a) <= Len(b) /\ SubSeq(b, 1, Len(a)) = a

\* what was sent on for p after the handshake packet
RelayedStream(p) == IF px[p].relayed = <<>> THEN <<>> ELSE Tail(px[p].relayed)

\* the ProxyC2SPacket frames of p that were written to any hosting client
FramesOf(p) == UNION {{<<c, i>> : i \in PacketsOf(c, p)} : c \in DOMAIN pc}

\* C21: for every proxy connection that found its destination, the data of
\* the ProxyC2SPacket messages sent on after the handshake packet is the
\* stream read from the ingress socket, in order, each chunk once and none
\* left out (the chunk being sent may be missing at the end), and what was
\* written to the ingress socket is the data of the ProxyS2CPacket messages
\* of its destination in the order they were handled.
RelayIsFifo ==
    \A p \in ProxyIds :
        px[p].connection # 0 =>
            /\ IsPrefix(RelayedStream(p), px[p].stream)
            /\ Len(px[p].stream) - Len(RelayedStream(p)) <= 1
            /\ px[p].at = "relaying" => RelayedStream(p) = px[p].stream
            /\ Cardinality(FramesOf(p)) = Len(px[p].relayed)
            /\ IsPrefix(ingress[p].written, px[p].answered)
            /\ ~ingress[p].shut => ingress[p].written = px[p].answered

\* two chunks were sent on, one of them again after the destination was
\* looked up anew, and two answers were written to the ingress socket
RelayedAcrossReconnect ==
    \E p \in ProxyIds :
        /\ px[p].retries > 0
        /\ px[p].at = "relaying"
        /\ px[p].stream = <<<<7>>, <<8>>>>
        /\ Len(px[p].relayed) = 3
        /\ ingress[p].written = <<<<9>>, <<10>>>>

\* C22: when handle_proxy_connection is over, for whatever reason, the
\* table holds no entry for the proxy connection any more, and in the step
\* that ends it ProxyDisconnect is sent to the hosting client that was
\* resolved last, if any was (nothing is written when its socket is closed).
RelayEndsClean ==
    /\ [](\A p \in ProxyIds : px[p].at = "done" => p \notin DOMAIN proxy_connections)
    /\ [][\A p \in ProxyIds :
            px[p].at # "done" /\ px'[p].at = "done" =>
                \A c \in DOMAIN pc :
                    wire'[c] = IF c = px[p].connection /\ Writable(c)
                               THEN Append(wire[c], ProxyDisconnectFrame(p))
                               ELSE wire[c]
        ]_vars

\* a relay has ended at the end of the ingress stream, after it gave up
\* on a hosting client that was gone, and its last hosting client was told
EndedAndTold ==
    \E p \in ProxyIds :
        /\ px[p].at = "done"
        /\ px[p].retries > 0
        /\ px[p].connection # 0
        /\ wire[px[p].connection][Len(wire[px[p].connection])].t = "ProxyDisconnect"

\* the relay of p read a handshake for a destination that is not connected
Unfound(p) ==
    /\ px[p].at \in {"closing", "done"}
    /\ px[p].dest # 0
    /\ px[p].connection = 0

\* text is part of packet
Contains(packet, text) ==
    \E i \in 0..(Len(packet) - Len(text)) : SubSeq(packet, i + 1, i + Len(text)) = text

\* C23: after a handshake for a connection id that is not connected the
\* ingress socket was written a packet that holds the text "Couldn't find
\* server with ID <id>" (and for next state 1 a pong after it) and was shut
\* down, the table has no entry for the proxy connection, and the steps that
\* turn the game client away write nothing to any connection of the server.
UnfoundIsToldWhy ==
    /\ [](\A p \in ProxyIds :
            Unfound(p) =>
                /\ ingress[p].shut
                /\ ingress[p].written # <<>>
                /\ Contains(ingress[p].written[1], CouldntFindMessage(px[p].dest))
                /\ next_state_of(px[p].handshake_data) = 1 =>
                       /\ Len(ingress[p].written) = 2
                       /\ ingress[p].written[2] = <<9, 1, 0, 0, 0, 0, 0, 0, 0, 0>>
                /\ next_state_of(px[p].handshake_data) # 1 => Len(ingress[p].written) = 1
                /\ p \notin DOMAIN proxy_connections)
    /\ [][\A p \in ProxyIds :
            Unfound(p)' /\ px'[p] # px[p] => UNCHANGED <<wire, proxy_connections>>
        ]_vars

\* C33: a chunk whose sends have all failed is given up, and the relay
\* ended, no later than five seconds and one sleep after its first attempt,
\* also while the lookup of the destination keeps finding a connection.
RetryGivesUpInTime ==
    \A p \in ProxyIds :
        px[p].at \in {"sending", "resolving"}
            => now - px[p].send_start <= RETRY_LIMIT + RETRY_SLEEP

(***************************************************************************)
(* Properties of the version check.                                        *)
(***************************************************************************)
\* C9: a first u32 in 2..=7 is accepted; only a version outside 2..=7 is
\* answered with the critical Error of the version check and closed.
AcceptsVersionsTwoToSeven ==
    \A c \in DOMAIN pc :
        outcome[c].message = "Unsupported protocol version" =>
            conn[c].protocol_version \notin 2..7

(***************************************************************************)
(* Properties of the pending friend-request stores.                        *)
(***************************************************************************)
Quiescent ==
    \A c \in DOMAIN pc :
        pc[c] \notin {"dequeuing", "fr_remember", "fr_unreceive", "fr_receive",
                      "fr_unremember"}

Remembers(a, b) ==
    a \in DOMAIN remembered_friend_requests
        /\ b \in Range(remembered_friend_requests[a])

Received(b, a) ==
    b \in DOMAIN received_friend_requests
        /\ a \in Range(received_friend_requests[b])

StoreKeys == (DOMAIN remembered_friend_requests) \cup (DOMAIN received_friend_requests)

StoredUsers ==
    StoreKeys \cup UNION {Range(remembered_friend_requests[a]) :
                            a \in DOMAIN remembered_friend_requests}
              \cup UNION {Range(received_friend_requests[b]) :
                            b \in DOMAIN received_friend_requests}

\* C4: at every quiescent point b is in remembered[a] if and only if a is in
\* received[b].
StoresSymmetric ==
    Quiescent => \A a \in StoredUsers, b \in StoredUsers :
                    Remembers(a, b) <=> Received(b, a)

Count(frames, f) == Cardinality({i \in DOMAIN frames : frames[i] = f})

BecomesLive(c) == pc[c] # "live" /\ pc'[c] = "live"

AloneInDequeue(c) ==
    \A other \in DOMAIN pc \ {c} :
        ~(pc[other] = "dequeuing" /\ conn[other].user_uuid = conn[c].user_uuid)

\* C6: a FriendRequest{B} that A (above Insecure) sent while B had no live
\* connection is delivered exactly once when B next reaches Live, with
\* security Secure for an online-account A, and afterwards received[B] does
\* not contain A and remembered[A] does not contain B.
OwedRequestsDelivered ==
    [][\A c \in DOMAIN pc : BecomesLive(c) /\ AloneInDequeue(c) =>
          \A p \in owed : p[2] = conn[c].user_uuid =>
              /\ Count(wire'[c], FriendRequestFrame(p[1], SecurityLevelFrom(p[1], TRUE))) = 1
              /\ get_version_num(p[1]) = 4 =>
                    Count(wire'[c], FriendRequestFrame(p[1], Secure)) = 1
              /\ ~Received(p[2], p[1])'
              /\ ~Remembers(p[1], p[2])'
      ]_vars

\* C32: at every quiescent point a user with a live connection that by_id
\* returns for its id has no entry in received_friend_requests.
NoneQueuedForOnlineUser ==
    Quiescent => \A c \in DOMAIN pc :
                    pc[c] = "live" /\ by_id(connections, conn[c].id) = c
                        => conn[c].user_uuid \notin DOMAIN received_friend_requests

(***************************************************************************)
(* Properties of the FriendRequest handler.                                *)
(***************************************************************************)
StoresUnchanged == UNCHANGED <<remembered_friend_requests, received_friend_requests>>

\* the request of c is written to the connections of the set to that can be
\* written, and to no other
DeliveredTo(c, to) ==
    \A other \in DOMAIN pc :
        wire'[other] =
            IF other \in to /\ Writable(other)
            THEN Append(wire[other],
                        FriendRequestFrame(conn[c].user_uuid, security_level(c)))
            ELSE wire[other]

\* the three branches of the handler, with the connections the request is
\* delivered to
HandledAs(c, to_user, recipients) ==
    IF by_user_id(connections, to_user) # <<>>
    THEN /\ DeliveredTo(c, recipients)
         /\ StoresUnchanged
         /\ pc' = pc
    ELSE IF security_level(c) > Insecure
    THEN /\ pc' = [pc EXCEPT ![c] = "fr_remember"]
         /\ loc'[c].to = to_user
         /\ wire' = wire
         /\ StoresUnchanged
    ELSE /\ wire' = wire
         /\ StoresUnchanged
         /\ pc' = pc

Enqueued ==
    \A c \in DOMAIN pc : \A me \in {conn[c].user_uuid}, to_user \in {loc[c].to} :
        /\ pc[c] = "fr_remember" /\ pc'[c] # "fr_remember" =>
              Remembers(me, to_user)'
        /\ pc[c] = "fr_receive" /\ pc'[c] # "fr_receive" =>
              Received(to_user, me)'

\* C7, as stated: with a live connection of the target the request is
\* delivered to the connections of the target and no store changes;
\* otherwise a sender above Insecure enqueues the pair in both stores; an
\* Insecure sender sends and stores nothing.
FriendRequestHandledAsStated ==
    [][/\ msgs' = msgs + 1 =>
             \E c \in DOMAIN pc, to_user \in Users :
                 /\ pc[c] = "live"
                 /\ HandledAs(c, to_user, Range(by_user_id(connections, to_user)))
       /\ Enqueued
      ]_vars

\* C7, amended: the request is delivered to the connections of the target
\* whose connection id is not that of the sender.
FriendRequestHandled ==
    [][/\ msgs' = msgs + 1 =>
             \E c \in DOMAIN pc, to_user \in Users :
                 /\ pc[c] = "live"
                 /\ HandledAs(c, to_user,
                              {other \in Range(by_user_id(connections, to_user)) :
                                  conn[other].id # conn[c].id})
       /\ Enqueued
      ]_vars

\* the three branches have been taken: a request was delivered, one was
\* stored, and an Insecure sender is live while a user has no connection
ThreeBranchesTaken ==
    /\ \E c \in DOMAIN pc : \E i \in DOMAIN wire[c] : wire[c][i].t = "FriendRequest"
    /\ received_friend_requests # EmptyMap
    /\ \E c \in DOMAIN pc :
          pc[c] = "live" /\ security_level(c) = Insecure /\ msgs = MaxMsgs

(***************************************************************************)
(* Properties of the bounded stores.                                       *)
(***************************************************************************)
\* C5: the remembered set of every user holds at most 5 entries and the
\* received set at most 10; an insertion that exceeds the bound evicts the
\* oldest entry.
BoundedStoresEvictOldest ==
    /\ [](/\ \A u \in DOMAIN remembered_friend_requests :
                Len(remembered_friend_requests[u]) <= 5
          /\ \A u \in DOMAIN received_friend_requests :
                Len(received_friend_requests[u]) <= 10)
    /\ [][\A c \in DOMAIN pc :
            \A me \in {conn[c].user_uuid}, to_user \in {loc[c].to} :
            /\ /\ pc[c] = "fr_remember" /\ pc'[c] # "fr_remember"
               /\ ~Remembers(me, to_user)
               /\ Len(entry_or_default(remembered_friend_requests, me)) = 5
               => remembered_friend_requests'[me] =
                     Append(Tail(remembered_friend_requests[me]), to_user)
            /\ /\ pc[c] = "fr_receive" /\ pc'[c] # "fr_receive"
               /\ ~Received(to_user, me)
               /\ Len(entry_or_default(received_friend_requests, to_user)) = 10
               => received_friend_requests'[to_user] =
                     Append(Tail(received_friend_requests[to_user]), me)
       ]_vars

\* one handler has evicted the oldest remembered request, another the
\* oldest received one
BothStoresEvicted ==
    \E c \in DOMAIN pc, d \in DOMAIN pc :
        /\ pc[c] = "fr_unreceive" /\ loc[c].removed = Target(1)
        /\ pc[d] = "fr_unremember" /\ loc[d].removed = 1

(***************************************************************************)
(* Properties of the send path.                                            *)
(***************************************************************************)
\* C8: sending a message to a connection whose protocol version is below
\* the first protocol of the message writes nothing to the socket, leaves
\* the encrypt cipher where it was and reports success.
GatedSendIsNoOp ==
    [][lastSend'.n # lastSend.n =>
          (conn[lastSend'.to].protocol_version < first_protocol(lastSend'.t) =>
              /\ wire' = wire
              /\ enc' = enc
              /\ lastSend'.ok)
      ]_vars

\* a message was sent to a connection below its first protocol, after the
\* client had closed its end
GatedSendToClosedPeer ==
    /\ lastSend.n > 0
    /\ conn[lastSend.to].protocol_version < first_protocol(lastSend.t)
    /\ peerGone[lastSend.to]
    /\ lastSend.ok

(***************************************************************************)
(* Properties of the broadcasts.                                           *)
(***************************************************************************)
\* how often broadcast_to_friends of c comes upon the connection x
Listings(c, friends, x) ==
    IF conn[x].id = conn[c].id THEN 0
    ELSE Cardinality(UNION {{<<i, j>> : j \in {k \in DOMAIN by_user_id(connections, friends[i]) :
                                                  by_user_id(connections, friends[i])[k] = x}} :
                            i \in DOMAIN friends})

Copies(n, f) == [i \in 1..n |-> f]

\* C24: a ListOnline message of c is sent on to every connection of the
\* friends whose socket takes it, as often as the connection is come upon,
\* whether or not the sends to the others failed; the handler leaves c live
\* and registered, closes no socket and ends no session.
SendErrorsSwallowed ==
    [][msgs' = msgs + 1 =>
          \E c \in DOMAIN pc, friends \in FriendLists :
              /\ \A x \in DOMAIN pc :
                    wire'[x] = IF Writable(x)
                               THEN wire[x] \o Copies(Listings(c, friends, x),
                                                      IsOnlineToFrame(conn[c].user_uuid))
                               ELSE wire[x]
              /\ pc'[c] = "live"
              /\ by_id(connections', conn[c].id) = c
              /\ UNCHANGED <<pc, connections, wrShut, err>>
      ]_vars

\* two messages of user 1 were sent on to a connection of user 2 that was
\* added after another connection of user 2, which got none of them: its
\* client had closed the socket
DeliveredPastGone ==
    /\ msgs = 2
    /\ \E i, j \in DOMAIN by_user_id(connections, 2) :
          LET x == by_user_id(connections, 2)[i]
              y == by_user_id(connections, 2)[j]
          IN  /\ i < j
              /\ peerGone[x]
              /\ Count(wire[x], IsOnlineToFrame(1)) = 0
              /\ Count(wire[y], IsOnlineToFrame(1)) >= 3

(***************************************************************************)
(* Properties of JoinGranted.                                              *)
(***************************************************************************)
\* the step handles JoinGranted { connection_id, join_type } of c as
\* described, with target the connection the response is meant for (0 is
\* none)
Granted(c, join_type, target) ==
    LET kind == join_type.kind
        chosen == conn[c].protocol_version >= 3 /\ c \in DOMAIN external_proxy
        baseAddr == IF chosen /\ external_proxy[c].base_addr # ""
                    THEN external_proxy[c].base_addr ELSE config.base_addr
        port == IF chosen THEN external_proxy[c].mc_port ELSE config.ex_java_port
        nothing == kind = "Punch" \/ (kind = "Proxy" /\ baseAddr = "")
    IN  IF nothing
        THEN /\ \A x \in DOMAIN pc \ {c} : wire'[x] = wire[x]
             /\ IF Writable(c)
                THEN /\ Len(wire'[c]) = Len(wire[c]) + 1
                     /\ SubSeq(wire'[c], 1, Len(wire[c])) = wire[c]
                     /\ wire'[c][Len(wire'[c])].t = "Error"
                     /\ wire'[c][Len(wire'[c])].a = 0
                ELSE wire'[c] = wire[c]
        ELSE \A x \in DOMAIN pc :
                 IF x = target /\ Writable(x)
                 THEN wire'[x] = Append(wire[x],
                         IF kind = "UPnP"
                         THEN OnlineGameFrame(<<ToString(conn[c].addr)>>, join_type.port,
                                              conn[c].id)
                         ELSE OnlineGameFrame(<<ToString(conn[c].id), baseAddr>>, port,
                                              conn[c].id))
                 ELSE wire'[x] = wire[x]

\* C25 as stated: the response is forwarded to whichever connection holds
\* the connection id of the message.
JoinGrantedHandledAsStated ==
    [][lastGrant'.n # lastGrant.n =>
          Granted(lastGrant'.from, lastGrant'.join_type,
                  by_id(connections, lastGrant'.connection_id))
      ]_vars

\* C25: JoinGranted of c yields OnlineGame with the address of c as host
\* for UPnP, with the connection id of c before the base address as host for
\* Proxy (base address and port of the external proxy of c if c is of
\* protocol 3 or later and has one, else of the server), and nothing for
\* Punch and for Proxy without base address.  When nothing is yielded c is
\* sent a non-critical Error and no other connection is sent anything;
\* otherwise the OnlineGame is sent to the connection of the connection id
\* of the message, if there is one and it is not the id of c itself.
JoinGrantedHandled ==
    [][lastGrant'.n # lastGrant.n =>
          Granted(lastGrant'.from, lastGrant'.join_type,
                  IF lastGrant'.connection_id = conn[lastGrant'.from].id THEN 0
                  ELSE by_id(connections, lastGrant'.connection_id))
      ]_vars

\* a connection has been sent the address of the host for UPnP, and for
\* Proxy the base address of the server with the port of the external proxy
\* of the host, which has no base address of its own
GrantedBothWays ==
    \E x \in DOMAIN pc \ {1} :
        /\ Len(wire[x]) >= 2
        /\ wire[x][Len(wire[x]) - 1].t = "OnlineGame"
        /\ wire[x][Len(wire[x]) - 1].msg = <<"1">>
        /\ wire[x][Len(wire[x])].t = "OnlineGame"
        /\ wire[x][Len(wire[x])].msg = <<"1", "wh.example">>
        /\ wire[x][Len(wire[x])].a = 25567

(***************************************************************************)
(* Properties of the connection ids                                        *)
(***************************************************************************)
Below2Pow42(id) == LessThan(id, Pow2_42)

AcceptedIdsBelow2Pow42 ==
    codec.at = "parsed" /\ codec.result.ok => Below2Pow42(codec.result.id)

(***************************************************************************)
(* Properties of the order of the messages                                 *)
(***************************************************************************)
\* C30: the handling of a message of a client starts only when the handling
\* of its message before has finished, and what the messages of one sender
\* cause at one recipient arrives there in the order the sender sent them:
\* the client of user 2 does not get the IsOnlineTo of the ListOnline before
\* the FriendRequest that user 1 sent first.
SenderOrderKept ==
    /\ [][msgs' # msgs => pc[1] = "live"]_vars
    /\ [](\A c \in DOMAIN wire : \A i, j \in DOMAIN wire[c] :
             i < j => ~(wire[c][i].t = "IsOnlineTo" /\ wire[c][j].t = "FriendRequest"))

(***************************************************************************)
(* Properties of the locks                                                 *)
(***************************************************************************)
WriteMutexes(t) == {lock \in locking.held[t] : lock.name = "write"}

\* the lock a task waits for, if its next step takes one that is held
Wants(t, lock) ==
    /\ locking.todo[t] # <<>>
    /\ Head(locking.todo[t]).op \in {"acq", "call"}
    /\ Head(locking.todo[t]).lock = lock
    /\ ~Free(lock)

WaitsFor(t, u) == \E lock \in locking.held[u] : Wants(t, lock)

NoWriteUnderRegistryLock ==
    \A t \in LockTasks :
        locking.todo[t] # <<>> /\ Head(locking.todo[t]).op = "write"
            => ~Holds(t, RegistryLock)

(***************************************************************************)
(* Properties of the IpInfoMap                                             *)
(***************************************************************************)
InRange(addr, range) ==
    /\ AtMost(range.start, as_u128(addr.bits))
    /\ AtMost(as_u128(addr.bits), range.end)

\* C39: a lookup of an address gives the value of the range taken into the
\* map the address is in, both ends of the range included, and nothing for
\* an address in no range, for the addresses of both families and for a
\* range that ends at 2^32 - 1; a range that is not above the one taken
\* before it leaves the map as it was.
LookupGivesTheRange ==
    /\ geo.asked.t = "some" =>
           LET addr == geo.asked.value
               within == {i \in DOMAIN geo.accepted : InRange(addr, geo.accepted[i])}
           IN  /\ \A i \in within : geo.found = Some(geo.accepted[i].info)
               /\ within = {} => geo.found = None
    /\ geo.last = "rejected" => GeoMaps(geo) = geo.before.value

\* C40: the country unpacked from the value a lookup found is the country
\* of the record that was packed, unpacking does not fail, and the
\* connection gets the country.
CountryUnpacked ==
    geo.found.t = "some" =>
        /\ geo.info.t = "ok"
        /\ \A i \in DOMAIN geo.accepted :
               geo.accepted[i].info = geo.found.value
                   => geo.country = Some(geo.accepted[i].country)

====
